---- MODULE Spec2Model ----
(***************************************************************************)
(* Verification model of coding-nexus-migrator.                            *)
(*                                                                         *)
(* Several state machines share this module, each with its specification:  *)
(*   Spec       the two pipeline migrators (memory_pipeline_migrator.py,   *)
(*              pipeline_migrator.py): driver, download tasks, upload      *)
(*              workers, bounded queue, memory counter, ledger files       *)
(*   SpecRoute  NexusUploader.determine_repository and its repository      *)
(*              cache, called by concurrent upload threads                 *)
(*   SpecRate   CodingClient._rate_limit with its semaphore and clock      *)
(*   SpecPage   CodingClient.get_maven_versions paging loop                *)
(*   SpecStd    MavenMigrator.migrate_all / migrate_project_cli            *)
(*   SpecStop   the stop command of cli.py                                 *)
(*   SpecLedger the ledger saves of the memory upload workers              *)
(*   SpecRetry  CodingClient._make_request and its retry loop              *)
(*   SpecDisk   the disk pipeline alone; SpecDiskFair adds fairness        *)
(*   SpecReuse  the migrate command on one MemoryPipelineMigrator          *)
(*   SpecPut    NexusUploader.upload_file and its three callers            *)
(*   SpecEntry  MavenMigrator.migrate_project_pipeline and                 *)
(*              migrate_project_memory_pipeline                            *)
(*   SpecSem    CodingClient._rate_limit under concurrent callers while    *)
(*              the semaphore is replaced; SpecSemFair adds fairness       *)
(*   SpecLong   the disk pipeline over a listing longer than its queue,    *)
(*              its tasks counted                                          *)
(*   SpecWrap   the wrapper of the retry decorator of utils.py             *)
(* A specification leaves the variables of the other machines idle.        *)
(***************************************************************************)
EXTENDS Integers, Sequences, FiniteSets, Bags, TLC

(***************************************************************************)
(* Bounds of the model                                                     *)
(***************************************************************************)
MaxRuns == 2           \* migrate_project calls per behaviour

RouteThreads == 2      \* threads calling into one NexusUploader

MaxCalls == 5          \* calls of _rate_limit per behaviour

MaxHead == 3           \* pages of a listing that differ from the pages after them

MaxConfiguredPages == 4    \* largest pagination.max_pages of the small configurations

MaxListing == 3        \* artifacts in a listing of get_maven_artifacts

MaxProcesses == 2      \* processes in the table the stop command reads

MaxUploads == 20       \* downloaded tasks of the run whose ledger saves are followed

MaxRequests == 2       \* calls of _make_request per behaviour

MaxPuts == 2           \* PUT requests per behaviour

MaxEntries == 2        \* calls of the pipeline entry points per behaviour

MaxCallers == 3        \* threads calling _rate_limit at one time

MaxRebuilds == 2       \* assignments of a new semaphore per behaviour

OverQueue == 2         \* artifacts a long listing has beyond the capacity of the upload queue

MaxAttempts == 3       \* largest max_attempts given to the retry decorator

(***************************************************************************)
(* Generic helpers                                                         *)
(***************************************************************************)
Min(a, b) == IF a < b THEN a ELSE b

Max(a, b) == IF a > b THEN a ELSE b

RECURSIVE SumOver(_, _)
SumOver(S, f) ==
  IF S = {} THEN 0
  ELSE LET x == CHOOSE y \in S : TRUE IN f[x] + SumOver(S \ {x}, f)

SeqsUpTo(S, n) == UNION {[1..k -> S] : k \in 0..n}

Range(s) == {s[i] : i \in DOMAIN s}

IsInjective(s) == \A i, j \in DOMAIN s : i # j => s[i] # s[j]

(***************************************************************************)
(* Pipeline migrators: data                                                *)
(***************************************************************************)
MiB == 1024 * 1024

max_memory_usage == 100 * MiB

max_wait_time == 300

max_queue_wait == 600

MemoryQueueMaxSize == 50

DiskQueueMaxSize == 100

SaveEvery == 10

\* payload of a download: NoData is Python's None, 0 is the empty bytes object
NoData == -1

PayloadSizes == {0, 60 * MiB, 120 * MiB}

DownloadResults == {NoData} \cup PayloadSizes

UploadResults == {"success", "failure", "raise"}

MaxWorkersChoices == {1, 2, 4}

ProjectNames == {"demo"}

ArtLib10 ==
  [group_id |-> "com.example", artifact_id |-> "lib", version |-> "1.0",
   packaging |-> "jar", file_name |-> "lib-1.0.jar"]

ArtLib10Sources ==
  [group_id |-> "com.example", artifact_id |-> "lib", version |-> "1.0",
   packaging |-> "jar", file_name |-> "lib-1.0-sources.jar"]

ArtLib20 ==
  [group_id |-> "com.example", artifact_id |-> "lib", version |-> "2.0-SNAPSHOT",
   packaging |-> "jar", file_name |-> "lib-2.0-SNAPSHOT.jar"]

Artifacts == {ArtLib10, ArtLib10Sources, ArtLib20}

\* artifact lists a project can expose: none, one file, two files of distinct
\* coordinates, two files of the same coordinates
Fixtures ==
  {<<>>, <<ArtLib10>>, <<ArtLib10, ArtLib20>>, <<ArtLib10, ArtLib10Sources>>}

\* f"{group_id}:{artifact_id}:{version}:{packaging}"
Identifier(a) ==
  a.group_id \o ":" \o a.artifact_id \o ":" \o a.version \o ":" \o a.packaging

\* hashlib.md5(identifier.encode()).hexdigest(), taken as collision free
Md5Hex(s) == "md5:" \o s

CoordinateHash(a) == Md5Hex(Identifier(a))

NoFile == [exists |-> FALSE, uploaded_hashes |-> {}, uploaded_dependencies |-> <<>>]

ZeroStats ==
  [total_artifacts |-> 0, downloaded |-> 0, uploaded |-> 0,
   download_failed |-> 0, upload_failed |-> 0, skipped_existing |-> 0]

\* MemoryMigrationTask / MigrationTask as constructed by _download_and_queue
NewTask(a) ==
  [artifact |-> a, file_data |-> NoData, temp_file_path |-> "",
   download_success |-> FALSE, upload_success |-> FALSE, error_message |-> ""]

\* min(config.performance.max_workers // 2, 5)
UploadWorkers(mw) == Min(mw \div 2, 5)

DownloadWorkers(mw) == mw

QueueMaxSize(k) == IF k = "memory" THEN MemoryQueueMaxSize ELSE DiskQueueMaxSize

VARIABLES
  kind,                  \* "memory": MemoryPipelineMigrator, "disk": PipelineMigrator
  max_workers,           \* config.performance.max_workers
  source,                \* project name -> artifacts the source service lists
  record_files,          \* project name -> ledger file target/migration_records_*.json
  run,                   \* migrate_project calls started
  project,               \* project of the current call
  mp_pc,                 \* position of migrate_project
  queue_wait_count,
  filtered_artifacts,    \* artifacts handed to the download futures of this call
  stop_event,
  uploaded_hashes,
  uploaded_dependencies,
  stats,
  upload_queue,          \* ids of the queued task objects, head first
  failed_tasks,          \* ids of task objects in self.failed_tasks
  current_memory_usage,
  memory_lock,           \* <<>> when free, else <<thread>> holding it
  temp_files,            \* file names present in self.temp_dir
  task,                  \* task objects: id <<run, i>> -> fields
  dl_pc,                 \* download future i of this run -> position
  wait_count,            \* download future i -> wait_count
  worker,                \* upload worker w -> [pc, task, save_counter]
  returned,              \* stats returned by each finished call
  requests               \* transfers asked of the two services: [run, op, artifact, ok]

pipeVars ==
  <<kind, max_workers, source, record_files, run, project, mp_pc,
    queue_wait_count, filtered_artifacts, stop_event, uploaded_hashes, uploaded_dependencies,
    stats, upload_queue, failed_tasks, current_memory_usage, memory_lock,
    temp_files, task, dl_pc, wait_count, worker, returned, requests>>

VARIABLES
  nexus_section,         \* the nexus: section of the configuration file
  server_repositories,   \* what GET /service/rest/v1/repositories answers when it succeeds
  repository,            \* NexusUploader.repository
  snapshot_repo,         \* NexusUploader.snapshot_repo
  releases_repo,         \* NexusUploader.releases_repo
  repositories_cache,    \* NexusUploader.repositories_cache: [is_none, list]
  caller,                \* thread -> [pc, op, version] of its call into the uploader
  routed,                \* returns of determine_repository so far: [version, repository]
  fetch_failed           \* whether a repository listing has failed so far

routeVars ==
  <<nexus_section, server_repositories, repository, snapshot_repo, releases_repo,
    repositories_cache, caller, routed, fetch_failed>>

VARIABLES
  requests_per_second,   \* CodingClient.requests_per_second
  rate_limiter,          \* permits left in the semaphore
  last_request_time,     \* CodingClient.last_request_time, in ms
  request_count,         \* CodingClient.request_count
  clock,                 \* time.time(), in ms
  rl_pc,                 \* the caller of _rate_limit: "idle" or "sleeping"
  current_time,          \* the caller's local current_time
  wake_time,             \* when the caller's time.sleep ends
  release_times,         \* release threads alive: the times their sleep(0.05) ends
  started_at,            \* time the caller entered its first call
  returned_at            \* time each call of _rate_limit returned

rateVars ==
  <<requests_per_second, rate_limiter, last_request_time, request_count, clock,
    rl_pc, current_time, wake_time, release_times, started_at, returned_at>>

VARIABLES
  pagination_config,     \* CodingClient.pagination_config: [present, page_size, max_pages]
  page_source,           \* the package listing: [head, rest] fill of each page
  pg_pc,                 \* position of get_maven_versions
  max_pages,             \* its locals
  page_size,
  page_number,
  consecutive_empty_pages,
  all_packages,          \* [pages, items]: the pages extended from and len(all_packages)
  fetched,               \* page numbers asked of get_maven_packages, in order
  warned,                \* the truncation warning of lines 657-659 was logged
  versions               \* number of versions returned, -1 before the return

pageVars ==
  <<pagination_config, page_source, pg_pc, max_pages, page_size, page_number,
    consecutive_empty_pages, all_packages, fetched, warned, versions>>

VARIABLES
  project_names,         \* config.project_names of the MavenMigrator
  coding_listing,        \* what get_maven_artifacts lists for each project of the source
  std_pc,                \* position of migrate_all / migrate_project_cli
  std_call,              \* the entry point called and its dry_run argument
  std_projects,          \* the project names the call iterates over
  project_index,         \* position of the loop of migrate_all lines 135-152
  project_stats,         \* migrate_project: the dict it builds and returns
  total_stats,           \* migrate_all: the dict it builds and returns
  all_artifacts,         \* download_repository_artifacts: the listing fetched
  unique_artifacts,      \* ... and the result of _filter_duplicate_files
  pending_downloads,     \* futures of _download_artifacts_parallel not yet completed
  download_stats,        \* stats of _download_artifacts_parallel
  download_directory,    \* files under config.download_path, relative paths
  files_to_upload,       \* upload_directory: files of the batch loop not yet processed
  upload_stats,          \* stats of upload_directory / _upload_batch
  nexus_assets,          \* paths stored on the destination server
  std_requests,          \* transfers asked of the source and of the destination
  std_result             \* what the call returned or raised

stdVars ==
  <<project_names, coding_listing, std_pc, std_call, std_projects, project_index,
    project_stats, total_stats, all_artifacts, unique_artifacts, pending_downloads,
    download_stats, download_directory, files_to_upload, upload_stats, nexus_assets,
    std_requests, std_result>>

VARIABLES
  processes,             \* the operating system's process table: pid -> process
  stop_pc,               \* position of the stop command
  stop_options,          \* its --force and --all flags
  migration_processes,   \* what _find_migration_processes returned
  processes_to_kill,     \* the selection of line 411
  kill_index,            \* position of the loop of lines 428-459
  signals,               \* signals sent, in order: <<pid, signal>>
  answer,                \* what the operator typed at the prompt
  stop_report,           \* per process handled: <<pid, what happened, how it was counted>>
  success_count,
  failed_count

stopVars ==
  <<processes, stop_pc, stop_options, migration_processes, processes_to_kill,
    kill_index, signals, answer, stop_report, success_count, failed_count>>

VARIABLES
  ledger_workers,        \* number of _upload_worker threads of the run
  ledger_queue,          \* downloaded tasks no worker has taken yet
  save_counter,          \* _upload_worker's local save_counter, per worker
  ledger_pc,             \* position of each worker: "get" or "upload"
  ledger_uploaded,       \* hashes added to uploaded_hashes by the run
  ledger_saved,          \* ... and how many of them the ledger file holds
  ledger_run             \* "running" until migrate_project has returned

ledgerVars ==
  <<ledger_workers, ledger_queue, save_counter, ledger_pc, ledger_uploaded,
    ledger_saved, ledger_run>>

VARIABLES
  mr_pc,                 \* position of _make_request
  mr_due,                \* when the time.sleep(wait_time) of line 144 ends
  retry,                 \* the loop variable of line 137
  original_rate,         \* per call of _make_request: its local original_rate
  restore_times,         \* restore_rate threads alive: [due, call]
  rate_limit_hits,       \* CodingClient.rate_limit_hits
  limiter_capacity,      \* the value the current semaphore was built with
  mr_responses,          \* what each session.post of the current call met
  mr_result,             \* what the last call returned or raised
  rate_before            \* requests_per_second when line 135 was reached

retryVars ==
  <<mr_pc, mr_due, retry, original_rate, restore_times, rate_limit_hits,
    limiter_capacity, mr_responses, mr_result, rate_before>>

VARIABLES
  put_log                \* the PUT requests NexusUploader.upload_file has sent

putVars == <<put_log>>

VARIABLES
  coding_service,        \* the source: whether it answers, and the projects it lists
  nexus_service,         \* the destination: what GET /service/rest/v1/repositories meets
  has_clients,           \* hasattr(self, 'coding_client') and hasattr(self, 'nexus_uploader')
  en_pc,                 \* position of migrate_project_pipeline / _memory_pipeline
  en_call,               \* the entry point called and its project_name
  en_count,              \* calls of the entry points so far
  en_log,                \* what the current call asked of the services and of the pipeline
  en_result              \* what the last call returned or raised

entryVars ==
  <<coding_service, nexus_service, has_clients, en_pc, en_call, en_count, en_log,
    en_result>>

VARIABLES
  sem_rate,              \* CodingClient.requests_per_second
  semaphores,            \* the Semaphore objects built so far, each its permits; the last is self.rate_limiter
  sem_caller,            \* thread -> where it is in _rate_limit and the semaphore it called acquire() on
  late_releases,         \* release_semaphore threads in their 50 ms sleep
  rates_seen,            \* the rates a restore can bring back (the original_rate variables)
  rebuilds               \* assignments of a new Semaphore so far

semVars == <<sem_rate, semaphores, sem_caller, late_releases, rates_seen, rebuilds>>

VARIABLES
  long_max_workers,      \* config.performance.max_workers
  long_listing,          \* len(all_artifacts) of the project
  long_source_serves,    \* the source service answers every download with the file
  long_nexus_accepts,    \* the destination accepts every upload
  long_pc,               \* where migrate_project is
  long_stats,            \* PipelineMigrator.stats
  long_submitted,        \* download work items no pool thread has started
  long_downloading,      \* download tasks inside download_artifact
  long_putting,          \* download tasks at upload_queue.put
  long_upload_queue,     \* upload_queue.qsize()
  long_worker,           \* where the upload worker is, "none" when there is none
  long_failed_tasks,     \* len(failed_tasks)
  long_stop_event        \* stop_event.is_set()

longVars == <<long_max_workers, long_listing, long_source_serves, long_nexus_accepts, long_pc, long_stats, long_submitted, long_downloading, long_putting, long_upload_queue, long_worker, long_failed_tasks, long_stop_event>>

VARIABLES
  wrap_max_attempts,     \* retry(max_attempts=...)
  wrap_delay,            \* retry(delay=...)
  wrap_backoff,          \* retry(backoff=...)
  wrap_exceptions,       \* retry(exceptions=...): the classes that are retried
  wrap_pc,               \* where the call of wrapper is
  attempts,              \* the local variable attempts of wrapper
  current_delay,         \* the local variable current_delay of wrapper
  func_calls,            \* what each call of func did, in order
  sleeps,                \* the arguments of time.sleep, in order
  wrap_result            \* what wrapper returned or raised

wrapVars == <<wrap_max_attempts, wrap_delay, wrap_backoff, wrap_exceptions, wrap_pc, attempts, current_delay, func_calls, sleeps, wrap_result>>

vars == <<pipeVars, routeVars, rateVars, pageVars, stdVars, stopVars, ledgerVars, retryVars, putVars, entryVars, semVars, longVars, wrapVars>>

notPipeVars == <<routeVars, rateVars, pageVars, stdVars, stopVars, ledgerVars, retryVars, putVars, entryVars, semVars, longVars, wrapVars>>

notRouteVars == <<pipeVars, rateVars, pageVars, stdVars, stopVars, ledgerVars, retryVars, putVars, entryVars, semVars, longVars, wrapVars>>

notRateVars == <<pipeVars, routeVars, pageVars, stdVars, stopVars, ledgerVars, retryVars, putVars, entryVars, semVars, longVars, wrapVars>>

notPageVars == <<pipeVars, routeVars, rateVars, stdVars, stopVars, ledgerVars, retryVars, putVars, entryVars, semVars, longVars, wrapVars>>

notStdVars == <<pipeVars, routeVars, rateVars, pageVars, stopVars, ledgerVars, retryVars, putVars, entryVars, semVars, longVars, wrapVars>>

notStopVars == <<pipeVars, routeVars, rateVars, pageVars, stdVars, ledgerVars, retryVars, putVars, entryVars, semVars, longVars, wrapVars>>

notLedgerVars == <<pipeVars, routeVars, rateVars, pageVars, stdVars, stopVars, retryVars, putVars, entryVars, semVars, longVars, wrapVars>>

\* _make_request works on the variables of _rate_limit too
notRetryVars == <<pipeVars, routeVars, pageVars, stdVars, stopVars, ledgerVars, putVars, entryVars, semVars, longVars, wrapVars>>

notPutVars == <<pipeVars, routeVars, rateVars, pageVars, stdVars, stopVars, ledgerVars, retryVars, entryVars, semVars, longVars, wrapVars>>

notEntryVars == <<pipeVars, routeVars, rateVars, pageVars, stdVars, stopVars, ledgerVars, retryVars, putVars, semVars, longVars, wrapVars>>

notSemVars == <<pipeVars, routeVars, rateVars, pageVars, stdVars, stopVars, ledgerVars, retryVars, putVars, entryVars, longVars, wrapVars>>

notLongVars == <<pipeVars, routeVars, rateVars, pageVars, stdVars, stopVars, ledgerVars, retryVars, putVars, entryVars, semVars, wrapVars>>

notWrapVars == <<pipeVars, routeVars, rateVars, pageVars, stdVars, stopVars, ledgerVars, retryVars, putVars, entryVars, semVars, longVars>>

(***************************************************************************)
(* Pipeline migrators: construction                                        *)
(***************************************************************************)
EmptyHeap == [id \in {} |-> NewTask(ArtLib10)]

NoWorkers == [w \in {} |-> [pc |-> "stopped", task |-> <<0, 0>>, save_counter |-> 0]]

NoFutures == [i \in {} |-> "done"]

\* MemoryPipelineMigrator.__init__ / PipelineMigrator.__init__
ConstructMigrator ==
  /\ stop_event' = FALSE
  /\ uploaded_hashes' = {}
  /\ uploaded_dependencies' = <<>>
  /\ stats' = ZeroStats
  /\ upload_queue' = <<>>
  /\ failed_tasks' = <<>>
  /\ current_memory_usage' = 0
  /\ memory_lock' = <<>>
  /\ temp_files' = {}
  /\ task' = EmptyHeap
  /\ dl_pc' = NoFutures
  /\ wait_count' = NoFutures
  /\ worker' = NoWorkers
  /\ queue_wait_count' = 0
  /\ filtered_artifacts' = <<>>

InitPipe ==
  /\ kind \in {"memory", "disk"}
  /\ max_workers \in MaxWorkersChoices
  /\ source \in [ProjectNames -> Fixtures]
  /\ record_files = [p \in ProjectNames |-> NoFile]
  /\ run = 0
  /\ project = "demo"
  /\ mp_pc = "constructed"
  /\ stop_event = FALSE
  /\ uploaded_hashes = {}
  /\ uploaded_dependencies = <<>>
  /\ stats = ZeroStats
  /\ upload_queue = <<>>
  /\ failed_tasks = <<>>
  /\ current_memory_usage = 0
  /\ memory_lock = <<>>
  /\ temp_files = {}
  /\ task = EmptyHeap
  /\ dl_pc = NoFutures
  /\ wait_count = NoFutures
  /\ worker = NoWorkers
  /\ queue_wait_count = 0
  /\ filtered_artifacts = <<>>
  /\ returned = <<>>
  /\ requests = {}

\* a later process constructs a fresh memory-pipeline migrator over the same
\* target/ directory (the disk pipeline keeps nothing from one run to the next)
NewProcess ==
  /\ kind = "memory"
  /\ mp_pc = "returned"
  /\ run < MaxRuns
  /\ ConstructMigrator
  /\ mp_pc' = "constructed"
  /\ UNCHANGED <<kind, max_workers, source, record_files, run, project,
                 returned, requests>>

(***************************************************************************)
(* Ledger file                                                             *)
(***************************************************************************)
\* a save that writes an empty ledger
SavedNothing(hashes, deps) ==
  [exists |-> TRUE, uploaded_hashes |-> {}, uploaded_dependencies |-> <<>>]

\* _save_migration_records: the file then holds the in-memory set and list
SavedRecords(hashes, deps) ==
  [exists |-> TRUE, uploaded_hashes |-> hashes, uploaded_dependencies |-> deps]

\* a load that never reads the file
LoadedHashesIgnoringFile(file, current) == current

\* _load_migration_records: an absent file leaves the fields as they are
LoadedHashes(file, current) ==
  IF file.exists THEN file.uploaded_hashes ELSE current

LoadedDependencies(file, current) ==
  IF file.exists THEN file.uploaded_dependencies ELSE current

\* _check_if_already_uploaded
check_if_already_uploaded(a, hashes) == CoordinateHash(a) \in hashes

\* the filter loop of migrate_project: artifacts not yet in the ledger, in order
FilterArtifacts(all, hashes) ==
  SelectSeq(all, LAMBDA a : ~check_if_already_uploaded(a, hashes))

(***************************************************************************)
(* Thread pool shared by the upload workers and the download futures       *)
(***************************************************************************)
\* a counter that gains two for one event
BumpTwice(st, key) == [st EXCEPT ![key] = @ + 2]

\* self.stats[key] += 1
Bump(st, key) == [st EXCEPT ![key] = @ + 1]

TaskId(i) == <<run, i>>

\* ThreadPoolExecutor(max_workers=self.download_workers + self.upload_workers)
PoolSize == DownloadWorkers(max_workers) + UploadWorkers(max_workers)

BusyThreads ==
  Cardinality({w \in DOMAIN worker : worker[w].pc \notin {"submitted", "stopped"}})
  + Cardinality({i \in DOMAIN dl_pc : dl_pc[i] \notin {"submitted", "done"}})

\* work items start in submission order: upload workers first, then downloads
WorkerMayStart(w) ==
  /\ worker[w].pc = "submitted"
  /\ BusyThreads < PoolSize
  /\ \A v \in DOMAIN worker : v < w => worker[v].pc # "submitted"

FutureMayStart(i) ==
  /\ dl_pc[i] = "submitted"
  /\ BusyThreads < PoolSize
  /\ \A w \in DOMAIN worker : worker[w].pc # "submitted"
  /\ \A j \in DOMAIN dl_pc : j < i => dl_pc[j] # "submitted"

SubmittedWorkers(mw) ==
  [w \in 1..UploadWorkers(mw) |->
     [pc |-> "submitted", task |-> <<0, 0>>, save_counter |-> 0]]

SubmittedFutures(arts) == [i \in 1..Len(arts) |-> "submitted"]

ZeroCounts(arts) == [i \in 1..Len(arts) |-> 0]

(***************************************************************************)
(* MemoryPipelineMigrator.migrate_project                                  *)
(***************************************************************************)
\* lines 153-199: load the ledger, list the artifacts, filter, submit the work;
\* the early returns and the except branch pass through the finally that saves
Mem_migrate_project(p, discovery) ==
  /\ kind = "memory"
  /\ mp_pc = "constructed"
  /\ run < MaxRuns
  /\ LET file == record_files[p]
         hashes == LoadedHashes(file, uploaded_hashes)
         deps == LoadedDependencies(file, uploaded_dependencies)
         all == source[p]
         filtered == FilterArtifacts(all, hashes)
         counted == [stats EXCEPT !.total_artifacts = Len(all),
                                  !.skipped_existing = @ + Len(all) - Len(filtered)]
     IN /\ run' = run + 1
        /\ project' = p
        /\ uploaded_hashes' = hashes
        /\ uploaded_dependencies' = deps
        /\ \/ /\ discovery = "raise"
              /\ stats' = stats
              /\ record_files' = [record_files EXCEPT ![p] = SavedRecords(hashes, deps)]
              /\ returned' = Append(returned, stats')
              /\ mp_pc' = "returned"
              /\ UNCHANGED <<filtered_artifacts, dl_pc, wait_count, worker>>
           \/ /\ discovery = "ok"
              /\ filtered = <<>>
              /\ stats' = counted
              /\ record_files' = [record_files EXCEPT ![p] = SavedRecords(hashes, deps)]
              /\ returned' = Append(returned, stats')
              /\ mp_pc' = "returned"
              /\ UNCHANGED <<filtered_artifacts, dl_pc, wait_count, worker>>
           \/ /\ discovery = "ok"
              /\ filtered # <<>>
              /\ stats' = counted
              /\ filtered_artifacts' = filtered
              /\ dl_pc' = SubmittedFutures(filtered)
              /\ wait_count' = ZeroCounts(filtered)
              /\ worker' = SubmittedWorkers(max_workers)
              /\ mp_pc' = "await_downloads"
              /\ UNCHANGED <<record_files, returned>>
  /\ UNCHANGED <<kind, max_workers, source, queue_wait_count, stop_event,
                 upload_queue, failed_tasks, current_memory_usage, memory_lock,
                 temp_files, task, requests>>

\* lines 200-205: as_completed over the download futures
Mem_await_downloads ==
  /\ kind = "memory"
  /\ mp_pc = "await_downloads"
  /\ \A i \in DOMAIN dl_pc : dl_pc[i] = "done"
  /\ mp_pc' = "drain"
  /\ queue_wait_count' = 0
  /\ UNCHANGED <<kind, max_workers, source, record_files, run, project,
                 filtered_artifacts, stop_event, uploaded_hashes,
                 uploaded_dependencies, stats, upload_queue, failed_tasks,
                 current_memory_usage, memory_lock, temp_files, task, dl_pc,
                 wait_count, worker, returned, requests>>

\* line 211: the test of the drain loop
DrainContinues(queue, count) == queue # <<>> /\ count < max_queue_wait

\* lines 209-215: queue_wait_count when the loop is left, for a queue that no
\* worker takes from between two polls: the first count failing the loop test
DrainLoopExit(queue) ==
  CHOOSE c \in 0..max_queue_wait :
    /\ ~DrainContinues(queue, c)
    /\ \A d \in 0..(c - 1) : DrainContinues(queue, d)

\* lines 207-221: the drain loop run to its exit, then stop_event.set().  The
\* polls of one wait are one step: between two polls the loop reads nothing
\* but the emptiness of the queue, which only shrinks once the downloads are
\* done, so leaving on the timeout needs no more than a task still queued
Mem_drain_and_stop ==
  /\ kind = "memory"
  /\ mp_pc = "drain"
  /\ queue_wait_count' = DrainLoopExit(upload_queue)
  /\ stop_event' = TRUE
  /\ mp_pc' = "join"
  /\ UNCHANGED <<kind, max_workers, source, record_files, run, project,
                 filtered_artifacts, uploaded_hashes, uploaded_dependencies,
                 stats, upload_queue, failed_tasks, current_memory_usage,
                 memory_lock, temp_files, task, dl_pc, wait_count, worker,
                 returned, requests>>

\* lines 223-241: join the upload workers, save the ledger, return the stats
Mem_join_and_return ==
  /\ kind = "memory"
  /\ mp_pc = "join"
  /\ \A w \in DOMAIN worker : worker[w].pc = "stopped"
  /\ record_files' = [record_files EXCEPT
                        ![project] = SavedRecords(uploaded_hashes, uploaded_dependencies)]
  /\ returned' = Append(returned, stats)
  /\ mp_pc' = "returned"
  /\ UNCHANGED <<kind, max_workers, source, run, project, queue_wait_count,
                 filtered_artifacts, stop_event, uploaded_hashes,
                 uploaded_dependencies, stats, upload_queue, failed_tasks,
                 current_memory_usage, memory_lock, temp_files, task, dl_pc,
                 wait_count, worker, requests>>

(***************************************************************************)
(* MemoryPipelineMigrator._download_and_queue                              *)
(***************************************************************************)
Heap(id, t) == [x \in DOMAIN task \cup {id} |-> IF x = id THEN t ELSE task[x]]

\* lines 321-334: the stop check, the ledger re-check, the task object
Mem_download_start(i) ==
  /\ kind = "memory"
  /\ mp_pc = "await_downloads"
  /\ i \in DOMAIN dl_pc
  /\ FutureMayStart(i)
  /\ IF stop_event
     THEN /\ dl_pc' = [dl_pc EXCEPT ![i] = "done"]
          /\ UNCHANGED <<stats, task>>
     ELSE IF check_if_already_uploaded(filtered_artifacts[i], uploaded_hashes)
     THEN /\ stats' = Bump(stats, "skipped_existing")
          /\ dl_pc' = [dl_pc EXCEPT ![i] = "done"]
          /\ UNCHANGED task
     ELSE /\ task' = Heap(TaskId(i), NewTask(filtered_artifacts[i]))
          /\ dl_pc' = [dl_pc EXCEPT ![i] = "check_memory"]
          /\ UNCHANGED stats
  /\ UNCHANGED <<kind, max_workers, source, record_files, run, project, mp_pc,
                 queue_wait_count, filtered_artifacts, stop_event,
                 uploaded_hashes, uploaded_dependencies, upload_queue,
                 failed_tasks, current_memory_usage, memory_lock, temp_files,
                 wait_count, worker, returned, requests>>

\* line 339: the test that decides whether the task waits at all
MemoryLimitReached(usage) == usage > max_memory_usage

\* line 343: the loop test, max_memory_usage * 0.5 compared without fractions
MemoryAboveHalf(usage) == 2 * usage > max_memory_usage

\* lines 338-340: take memory_lock and test the limit; a task that has to
\* wait keeps the lock while it polls
Mem_download_check_memory(i) ==
  /\ kind = "memory"
  /\ i \in DOMAIN dl_pc
  /\ dl_pc[i] = "check_memory"
  /\ memory_lock = <<>>
  /\ IF MemoryLimitReached(current_memory_usage)
     THEN /\ memory_lock' = <<"download", i>>
          /\ dl_pc' = [dl_pc EXCEPT ![i] = "waiting"]
     ELSE /\ dl_pc' = [dl_pc EXCEPT ![i] = "download"]
          /\ UNCHANGED memory_lock
  /\ UNCHANGED <<kind, max_workers, source, record_files, run, project, mp_pc,
                 queue_wait_count, filtered_artifacts, stop_event,
                 uploaded_hashes, uploaded_dependencies, stats, upload_queue,
                 failed_tasks, current_memory_usage, temp_files, task,
                 wait_count, worker, returned, requests>>

\* lines 343-350: wait_count when the polling loop is left, for polls that
\* all read `usage`: 0 when the first test fails, else the first count at
\* which the timeout guard of line 347 breaks out
WaitLoopExit(usage) ==
  CHOOSE c \in 0..Max(1, max_wait_time) :
    IF MemoryAboveHalf(usage)
    THEN c >= 1 /\ c >= max_wait_time /\ \A d \in 1..(c - 1) : d < max_wait_time
    ELSE c = 0

\* the loop runs under memory_lock, and every write of current_memory_usage
\* takes that lock, so all polls of one wait read the same value
Mem_download_wait(i) ==
  /\ kind = "memory"
  /\ i \in DOMAIN dl_pc
  /\ dl_pc[i] = "waiting"
  /\ memory_lock = <<"download", i>>
  /\ wait_count' = [wait_count EXCEPT ![i] = WaitLoopExit(current_memory_usage)]
  /\ memory_lock' = <<>>
  /\ dl_pc' = [dl_pc EXCEPT ![i] = "download"]
  /\ UNCHANGED <<kind, max_workers, source, record_files, run, project, mp_pc,
                 queue_wait_count, filtered_artifacts, stop_event,
                 uploaded_hashes, uploaded_dependencies, stats, upload_queue,
                 failed_tasks, current_memory_usage, temp_files, task, worker,
                 returned, requests>>

\* a test that takes empty bytes for a payload
HasPayloadNotNone(data) == data # NoData

\* line 355: `if file_data:` is false for None and for empty bytes
HasPayload(data) == data > 0

\* lines 353-359 and 377-380: _download_to_memory answers bytes or None
Mem_download_to_memory(i, data) ==
  /\ kind = "memory"
  /\ i \in DOMAIN dl_pc
  /\ dl_pc[i] = "download"
  /\ data \in DownloadResults
  /\ requests' = requests \cup
       {[run |-> run, op |-> "download", artifact |-> filtered_artifacts[i],
         ok |-> HasPayload(data)]}
  /\ IF HasPayload(data)
     THEN /\ task' = [task EXCEPT ![TaskId(i)].file_data = data,
                                  ![TaskId(i)].download_success = TRUE]
          /\ stats' = Bump(stats, "downloaded")
          /\ dl_pc' = [dl_pc EXCEPT ![i] = "add"]
          /\ UNCHANGED failed_tasks
     ELSE /\ task' = [task EXCEPT ![TaskId(i)].error_message = "Download failed"]
          /\ stats' = Bump(stats, "download_failed")
          /\ failed_tasks' = Append(failed_tasks, TaskId(i))
          /\ dl_pc' = [dl_pc EXCEPT ![i] = "done"]
  /\ UNCHANGED <<kind, max_workers, source, record_files, run, project, mp_pc,
                 queue_wait_count, filtered_artifacts, stop_event,
                 uploaded_hashes, uploaded_dependencies, upload_queue,
                 current_memory_usage, memory_lock, temp_files, wait_count,
                 worker, returned>>

\* lines 362-363: current_memory_usage += len(file_data), under memory_lock
Mem_download_add_usage(i) ==
  /\ kind = "memory"
  /\ i \in DOMAIN dl_pc
  /\ dl_pc[i] = "add"
  /\ memory_lock = <<>>
  /\ current_memory_usage' = current_memory_usage + task[TaskId(i)].file_data
  /\ dl_pc' = [dl_pc EXCEPT ![i] = "put"]
  /\ UNCHANGED <<kind, max_workers, source, record_files, run, project, mp_pc,
                 queue_wait_count, filtered_artifacts, stop_event,
                 uploaded_hashes, uploaded_dependencies, stats, upload_queue,
                 failed_tasks, memory_lock, temp_files, task, wait_count,
                 worker, returned, requests>>

\* lines 366-373: upload_queue.put(task, timeout=30); a queue that stays full
\* for the 30 s makes it a failed task
Mem_download_put(i) ==
  /\ kind = "memory"
  /\ i \in DOMAIN dl_pc
  /\ dl_pc[i] = "put"
  /\ IF Len(upload_queue) < QueueMaxSize(kind)
     THEN /\ upload_queue' = Append(upload_queue, TaskId(i))
          /\ UNCHANGED <<task, stats, failed_tasks>>
     ELSE /\ task' = [task EXCEPT ![TaskId(i)].error_message = "Queue error"]
          /\ stats' = Bump(stats, "upload_failed")
          /\ failed_tasks' = Append(failed_tasks, TaskId(i))
          /\ UNCHANGED upload_queue
  /\ dl_pc' = [dl_pc EXCEPT ![i] = "done"]
  /\ UNCHANGED <<kind, max_workers, source, record_files, run, project, mp_pc,
                 queue_wait_count, filtered_artifacts, stop_event,
                 uploaded_hashes, uploaded_dependencies, current_memory_usage,
                 memory_lock, temp_files, wait_count, worker, returned,
                 requests>>

(***************************************************************************)
(* MemoryPipelineMigrator._upload_worker                                   *)
(***************************************************************************)
\* a pool thread picks the submitted worker up
Mem_worker_start(w) ==
  /\ kind = "memory"
  /\ w \in DOMAIN worker
  /\ WorkerMayStart(w)
  /\ worker' = [worker EXCEPT ![w].pc = "loop"]
  /\ UNCHANGED <<kind, max_workers, source, record_files, run, project, mp_pc,
                 queue_wait_count, filtered_artifacts, stop_event,
                 uploaded_hashes, uploaded_dependencies, stats, upload_queue,
                 failed_tasks, current_memory_usage, memory_lock, temp_files,
                 task, dl_pc, wait_count, returned, requests>>

\* line 441: while not self.stop_event.is_set()
Mem_worker_loop(w) ==
  /\ kind = "memory"
  /\ w \in DOMAIN worker
  /\ worker[w].pc = "loop"
  /\ worker' = [worker EXCEPT ![w].pc = IF stop_event THEN "stopped" ELSE "get"]
  /\ UNCHANGED <<kind, max_workers, source, record_files, run, project, mp_pc,
                 queue_wait_count, filtered_artifacts, stop_event,
                 uploaded_hashes, uploaded_dependencies, stats, upload_queue,
                 failed_tasks, current_memory_usage, memory_lock, temp_files,
                 task, dl_pc, wait_count, returned, requests>>

\* line 451 and 538-540: upload_queue.get(timeout=1.0), Empty goes round the loop
Mem_worker_get(w) ==
  /\ kind = "memory"
  /\ w \in DOMAIN worker
  /\ worker[w].pc = "get"
  /\ IF upload_queue # <<>>
     THEN /\ worker' = [worker EXCEPT ![w].pc = "upload", ![w].task = Head(upload_queue)]
          /\ upload_queue' = Tail(upload_queue)
     ELSE /\ worker' = [worker EXCEPT ![w].pc = "loop"]
          /\ UNCHANGED upload_queue
  /\ UNCHANGED <<kind, max_workers, source, record_files, run, project, mp_pc,
                 queue_wait_count, filtered_artifacts, stop_event,
                 uploaded_hashes, uploaded_dependencies, stats, failed_tasks,
                 current_memory_usage, memory_lock, temp_files, task, dl_pc,
                 wait_count, returned, requests>>

\* lines 478-487: the record appended to uploaded_dependencies
DependencyInfo(a) ==
  [group_id |-> a.group_id, artifact_id |-> a.artifact_id, version |-> a.version,
   packaging |-> a.packaging, filename |-> a.file_name]

\* line 501: save the ledger at every tenth upload this worker counted
SaveDue(counter) == counter % SaveEvery = 0

\* lines 453-521: the upload of the task taken, with its three outcomes
Mem_worker_upload(w, result) ==
  /\ kind = "memory"
  /\ w \in DOMAIN worker
  /\ worker[w].pc = "upload"
  /\ result \in UploadResults
  /\ LET id == worker[w].task
         t == task[id]
     IN IF t.download_success /\ HasPayload(t.file_data)
        THEN \/ /\ result = "success"
                /\ task' = [task EXCEPT ![id].upload_success = TRUE]
                /\ stats' = Bump(stats, "uploaded")
                /\ uploaded_dependencies' =
                     Append(uploaded_dependencies, DependencyInfo(t.artifact))
                /\ uploaded_hashes' = uploaded_hashes \cup {CoordinateHash(t.artifact)}
                /\ worker' = [worker EXCEPT ![w].pc = "release",
                                            ![w].save_counter = @ + 1]
                /\ record_files' =
                     IF SaveDue(worker[w].save_counter + 1)
                     THEN [record_files EXCEPT
                             ![project] = SavedRecords(uploaded_hashes', uploaded_dependencies')]
                     ELSE record_files
                /\ requests' = requests \cup
                     {[run |-> run, op |-> "upload", artifact |-> t.artifact,
                       ok |-> TRUE]}
                /\ UNCHANGED failed_tasks
             \/ /\ result \in {"failure", "raise"}
                /\ task' = [task EXCEPT ![id].error_message =
                              IF result = "failure" THEN "Upload failed" ELSE "raised"]
                /\ stats' = Bump(stats, "upload_failed")
                /\ failed_tasks' = Append(failed_tasks, id)
                /\ worker' = [worker EXCEPT ![w].pc = "release"]
                /\ requests' = requests \cup
                     {[run |-> run, op |-> "upload", artifact |-> t.artifact,
                       ok |-> FALSE]}
                /\ UNCHANGED <<uploaded_dependencies, uploaded_hashes, record_files>>
        ELSE /\ result = "success"
             /\ worker' = [worker EXCEPT ![w].pc = "release"]
             /\ UNCHANGED <<task, stats, uploaded_dependencies, uploaded_hashes,
                            record_files, requests, failed_tasks>>
  /\ UNCHANGED <<kind, max_workers, source, run, project, mp_pc,
                 queue_wait_count, filtered_artifacts, stop_event, upload_queue,
                 current_memory_usage, memory_lock, temp_files, dl_pc,
                 wait_count, returned>>

\* a release that happens only after a successful upload
ReleasesMemoryOnSuccess(t) == t.upload_success /\ HasPayload(t.file_data)

\* lines 525-530: whether the finally block gives the payload's bytes back
ReleasesMemory(t) == HasPayload(t.file_data)

\* lines 523-536: the finally block: release the payload, task_done()
Mem_worker_release(w) ==
  /\ kind = "memory"
  /\ w \in DOMAIN worker
  /\ worker[w].pc = "release"
  /\ LET id == worker[w].task
     IN IF ReleasesMemory(task[id])
        THEN /\ memory_lock = <<>>
             /\ current_memory_usage' = current_memory_usage - task[id].file_data
             /\ task' = [task EXCEPT ![id].file_data = NoData]
        ELSE UNCHANGED <<current_memory_usage, task>>
  /\ worker' = [worker EXCEPT ![w].pc = "loop"]
  /\ UNCHANGED <<kind, max_workers, source, record_files, run, project, mp_pc,
                 queue_wait_count, filtered_artifacts, stop_event,
                 uploaded_hashes, uploaded_dependencies, stats, upload_queue,
                 failed_tasks, memory_lock, temp_files, dl_pc, wait_count,
                 returned, requests>>

(***************************************************************************)
(* PipelineMigrator (pipeline_migrator.py): the disk-buffered pipeline     *)
(***************************************************************************)
DiskDownloadResults == {"ok", "fail", "raise"}

DiskUploadResults == {"success", "failure"}

\* lines 91-121: make the temp dir, list the artifacts, submit the work; the
\* early return and the except branch pass through the finally that cleans up
Disk_migrate_project(p, discovery) ==
  /\ kind = "disk"
  /\ mp_pc = "constructed"
  /\ run < MaxRuns
  /\ run' = run + 1
  /\ project' = p
  /\ temp_files' = {}
  /\ \/ /\ discovery = "raise"
        /\ stats' = stats
        /\ returned' = Append(returned, stats')
        /\ mp_pc' = "returned"
        /\ UNCHANGED <<filtered_artifacts, dl_pc, wait_count, worker>>
     \/ /\ discovery = "ok"
        /\ source[p] = <<>>
        /\ stats' = [stats EXCEPT !.total_artifacts = 0]
        /\ returned' = Append(returned, stats')
        /\ mp_pc' = "returned"
        /\ UNCHANGED <<filtered_artifacts, dl_pc, wait_count, worker>>
     \/ /\ discovery = "ok"
        /\ source[p] # <<>>
        /\ stats' = [stats EXCEPT !.total_artifacts = Len(source[p])]
        /\ filtered_artifacts' = source[p]
        /\ dl_pc' = SubmittedFutures(source[p])
        /\ wait_count' = ZeroCounts(source[p])
        /\ worker' = SubmittedWorkers(max_workers)
        /\ mp_pc' = "await_downloads"
        /\ UNCHANGED returned
  /\ UNCHANGED <<kind, max_workers, source, record_files, queue_wait_count,
                 stop_event, uploaded_hashes, uploaded_dependencies,
                 upload_queue, failed_tasks, current_memory_usage, memory_lock,
                 task, requests>>

\* lines 123-128: as_completed over the download futures
Disk_await_downloads ==
  /\ kind = "disk"
  /\ mp_pc = "await_downloads"
  /\ \A i \in DOMAIN dl_pc : dl_pc[i] = "done"
  /\ mp_pc' = "drain"
  /\ UNCHANGED <<kind, max_workers, source, record_files, run, project,
                 queue_wait_count, filtered_artifacts, stop_event,
                 uploaded_hashes, uploaded_dependencies, stats, upload_queue,
                 failed_tasks, current_memory_usage, memory_lock, temp_files,
                 task, dl_pc, wait_count, worker, returned, requests>>

\* a driver that does not look at the queue before it stops the workers
QueueEmptyAssumed(q) == TRUE

\* line 132: self.upload_queue.empty()
QueueEmpty(q) == q = <<>>

\* lines 132-136: poll until the queue is empty, then stop_event.set()
Disk_drain_and_stop ==
  /\ kind = "disk"
  /\ mp_pc = "drain"
  /\ QueueEmpty(upload_queue)
  /\ stop_event' = TRUE
  /\ mp_pc' = "join"
  /\ UNCHANGED <<kind, max_workers, source, record_files, run, project,
                 queue_wait_count, filtered_artifacts, uploaded_hashes,
                 uploaded_dependencies, stats, upload_queue, failed_tasks,
                 current_memory_usage, memory_lock, temp_files, task, dl_pc,
                 wait_count, worker, returned, requests>>

\* lines 138-154: join the upload workers, remove the temp dir, return the stats
Disk_join_and_return ==
  /\ kind = "disk"
  /\ mp_pc = "join"
  /\ \A w \in DOMAIN worker : worker[w].pc = "stopped"
  /\ temp_files' = {}
  /\ returned' = Append(returned, stats)
  /\ mp_pc' = "returned"
  /\ UNCHANGED <<kind, max_workers, source, record_files, run, project,
                 queue_wait_count, filtered_artifacts, stop_event,
                 uploaded_hashes, uploaded_dependencies, stats, upload_queue,
                 failed_tasks, current_memory_usage, memory_lock, task, dl_pc,
                 wait_count, worker, requests>>

\* lines 202-211: the stop check, the task object and its temp file path
Disk_download_start(i) ==
  /\ kind = "disk"
  /\ mp_pc = "await_downloads"
  /\ i \in DOMAIN dl_pc
  /\ FutureMayStart(i)
  /\ IF stop_event
     THEN /\ dl_pc' = [dl_pc EXCEPT ![i] = "done"]
          /\ UNCHANGED task
     ELSE /\ task' = Heap(TaskId(i),
                          [NewTask(filtered_artifacts[i]) EXCEPT
                             !.temp_file_path = filtered_artifacts[i].file_name])
          /\ dl_pc' = [dl_pc EXCEPT ![i] = "download"]
  /\ UNCHANGED <<kind, max_workers, source, record_files, run, project, mp_pc,
                 queue_wait_count, filtered_artifacts, stop_event,
                 uploaded_hashes, uploaded_dependencies, stats, upload_queue,
                 failed_tasks, current_memory_usage, memory_lock, temp_files,
                 wait_count, worker, returned, requests>>

\* line 222: `if success and temp_file_path.exists()`
DownloadSucceeded(result, path, files) == result = "ok" /\ path \in files

\* lines 213-224 and 231-240: download_artifact writes the temp file and
\* answers True, answers False, or raises
Disk_download_artifact(i, result) ==
  /\ kind = "disk"
  /\ i \in DOMAIN dl_pc
  /\ dl_pc[i] = "download"
  /\ result \in DiskDownloadResults
  /\ requests' = requests \cup
       {[run |-> run, op |-> "download", artifact |-> filtered_artifacts[i],
         ok |-> result = "ok"]}
  /\ temp_files' = IF result = "ok"
                   THEN temp_files \cup {task[TaskId(i)].temp_file_path}
                   ELSE temp_files
  /\ IF result # "raise"
        /\ DownloadSucceeded(result, task[TaskId(i)].temp_file_path, temp_files')
     THEN /\ task' = [task EXCEPT ![TaskId(i)].download_success = TRUE]
          /\ stats' = Bump(stats, "downloaded")
          /\ dl_pc' = [dl_pc EXCEPT ![i] = "put"]
          /\ UNCHANGED failed_tasks
     ELSE /\ task' = [task EXCEPT ![TaskId(i)].error_message =
                        IF result = "raise" THEN "raised" ELSE "Download failed"]
          /\ stats' = Bump(stats, "download_failed")
          /\ failed_tasks' = Append(failed_tasks, TaskId(i))
          /\ dl_pc' = [dl_pc EXCEPT ![i] = "done"]
  /\ UNCHANGED <<kind, max_workers, source, record_files, run, project, mp_pc,
                 queue_wait_count, filtered_artifacts, stop_event,
                 uploaded_hashes, uploaded_dependencies, upload_queue,
                 current_memory_usage, memory_lock, wait_count, worker,
                 returned>>

\* lines 226-227 and 236-240: upload_queue.put(task, timeout=30); queue.Full
\* after the 30 s lands in the except branch of the download
Disk_download_put(i) ==
  /\ kind = "disk"
  /\ i \in DOMAIN dl_pc
  /\ dl_pc[i] = "put"
  /\ IF Len(upload_queue) < QueueMaxSize(kind)
     THEN /\ upload_queue' = Append(upload_queue, TaskId(i))
          /\ UNCHANGED <<task, stats, failed_tasks>>
     ELSE /\ task' = [task EXCEPT ![TaskId(i)].error_message = "raised"]
          /\ stats' = Bump(stats, "download_failed")
          /\ failed_tasks' = Append(failed_tasks, TaskId(i))
          /\ UNCHANGED upload_queue
  /\ dl_pc' = [dl_pc EXCEPT ![i] = "done"]
  /\ UNCHANGED <<kind, max_workers, source, record_files, run, project, mp_pc,
                 queue_wait_count, filtered_artifacts, stop_event,
                 uploaded_hashes, uploaded_dependencies, current_memory_usage,
                 memory_lock, temp_files, wait_count, worker, returned,
                 requests>>

\* a pool thread picks the submitted worker up
Disk_worker_start(w) ==
  /\ kind = "disk"
  /\ w \in DOMAIN worker
  /\ WorkerMayStart(w)
  /\ worker' = [worker EXCEPT ![w].pc = "loop"]
  /\ UNCHANGED <<kind, max_workers, source, record_files, run, project, mp_pc,
                 queue_wait_count, filtered_artifacts, stop_event,
                 uploaded_hashes, uploaded_dependencies, stats, upload_queue,
                 failed_tasks, current_memory_usage, memory_lock, temp_files,
                 task, dl_pc, wait_count, returned, requests>>

\* line 254: while not self.stop_event.is_set()
Disk_worker_loop(w) ==
  /\ kind = "disk"
  /\ w \in DOMAIN worker
  /\ worker[w].pc = "loop"
  /\ worker' = [worker EXCEPT ![w].pc = IF stop_event THEN "stopped" ELSE "get"]
  /\ UNCHANGED <<kind, max_workers, source, record_files, run, project, mp_pc,
                 queue_wait_count, filtered_artifacts, stop_event,
                 uploaded_hashes, uploaded_dependencies, stats, upload_queue,
                 failed_tasks, current_memory_usage, memory_lock, temp_files,
                 task, dl_pc, wait_count, returned, requests>>

\* lines 257 and 293-295: upload_queue.get(timeout=1.0)
Disk_worker_get(w) ==
  /\ kind = "disk"
  /\ w \in DOMAIN worker
  /\ worker[w].pc = "get"
  /\ IF upload_queue # <<>>
     THEN /\ worker' = [worker EXCEPT ![w].pc = "upload", ![w].task = Head(upload_queue)]
          /\ upload_queue' = Tail(upload_queue)
     ELSE /\ worker' = [worker EXCEPT ![w].pc = "loop"]
          /\ UNCHANGED upload_queue
  /\ UNCHANGED <<kind, max_workers, source, record_files, run, project, mp_pc,
                 queue_wait_count, filtered_artifacts, stop_event,
                 uploaded_hashes, uploaded_dependencies, stats, failed_tasks,
                 current_memory_usage, memory_lock, temp_files, task, dl_pc,
                 wait_count, returned, requests>>

\* lines 259-280: upload_file raises when the temp file is gone, else it
\* answers success or failure
Disk_worker_upload(w, result) ==
  /\ kind = "disk"
  /\ w \in DOMAIN worker
  /\ worker[w].pc = "upload"
  /\ result \in DiskUploadResults
  /\ LET id == worker[w].task
         t == task[id]
     IN IF t.download_success /\ t.temp_file_path # ""
        THEN IF t.temp_file_path \in temp_files /\ result = "success"
             THEN /\ task' = [task EXCEPT ![id].upload_success = TRUE]
                  /\ stats' = Bump(stats, "uploaded")
                  /\ requests' = requests \cup
                       {[run |-> run, op |-> "upload", artifact |-> t.artifact,
                         ok |-> TRUE]}
                  /\ UNCHANGED failed_tasks
             ELSE /\ task' = [task EXCEPT ![id].error_message =
                                IF t.temp_file_path \in temp_files
                                THEN "Upload failed" ELSE "raised"]
                  /\ stats' = Bump(stats, "upload_failed")
                  /\ failed_tasks' = Append(failed_tasks, id)
                  /\ requests' =
                       IF t.temp_file_path \in temp_files
                       THEN requests \cup
                              {[run |-> run, op |-> "upload", artifact |-> t.artifact,
                                ok |-> FALSE]}
                       ELSE requests
        ELSE UNCHANGED <<task, stats, failed_tasks, requests>>
  /\ worker' = [worker EXCEPT ![w].pc = "release"]
  /\ UNCHANGED <<kind, max_workers, source, record_files, run, project, mp_pc,
                 queue_wait_count, filtered_artifacts, stop_event,
                 uploaded_hashes, uploaded_dependencies, upload_queue,
                 current_memory_usage, memory_lock, temp_files, dl_pc,
                 wait_count, returned>>

\* lines 282-291: the finally block: unlink the temp file, task_done()
Disk_worker_release(w) ==
  /\ kind = "disk"
  /\ w \in DOMAIN worker
  /\ worker[w].pc = "release"
  /\ temp_files' = temp_files \ {task[worker[w].task].temp_file_path}
  /\ worker' = [worker EXCEPT ![w].pc = "loop"]
  /\ UNCHANGED <<kind, max_workers, source, record_files, run, project, mp_pc,
                 queue_wait_count, filtered_artifacts, stop_event,
                 uploaded_hashes, uploaded_dependencies, stats, upload_queue,
                 failed_tasks, current_memory_usage, memory_lock, task, dl_pc,
                 wait_count, returned, requests>>

DiskNext ==
  \/ \E p \in ProjectNames, d \in {"ok", "raise"} : Disk_migrate_project(p, d) /\ UNCHANGED notPipeVars
  \/ Disk_await_downloads /\ UNCHANGED notPipeVars
  \/ Disk_drain_and_stop /\ UNCHANGED notPipeVars
  \/ Disk_join_and_return /\ UNCHANGED notPipeVars
  \/ \E i \in DOMAIN dl_pc : Disk_download_start(i) /\ UNCHANGED notPipeVars
  \/ \E i \in DOMAIN dl_pc, r \in DiskDownloadResults : Disk_download_artifact(i, r) /\ UNCHANGED notPipeVars
  \/ \E i \in DOMAIN dl_pc : Disk_download_put(i) /\ UNCHANGED notPipeVars
  \/ \E w \in DOMAIN worker : Disk_worker_start(w) /\ UNCHANGED notPipeVars
  \/ \E w \in DOMAIN worker : Disk_worker_loop(w) /\ UNCHANGED notPipeVars
  \/ \E w \in DOMAIN worker : Disk_worker_get(w) /\ UNCHANGED notPipeVars
  \/ \E w \in DOMAIN worker, r \in DiskUploadResults : Disk_worker_upload(w, r) /\ UNCHANGED notPipeVars
  \/ \E w \in DOMAIN worker : Disk_worker_release(w) /\ UNCHANGED notPipeVars

\* an artifact of another group whose file has the name of ArtLib10's
ArtOtherLib10 ==
  [group_id |-> "org.other", artifact_id |-> "lib", version |-> "1.0",
   packaging |-> "jar", file_name |-> "lib-1.0.jar"]

\* the listings of the disk pipeline taken alone: those of Fixtures and two
\* files of distinct coordinates whose paths end in the same file name
DiskFixtures == Fixtures \cup {<<ArtLib10, ArtOtherLib10>>}

\* a PipelineMigrator constructed (lines 45-76) and not yet run
InitDisk ==
  /\ kind = "disk"
  /\ max_workers \in MaxWorkersChoices
  /\ source \in [ProjectNames -> DiskFixtures]
  /\ record_files = [p \in ProjectNames |-> NoFile]
  /\ run = 0
  /\ project = "demo"
  /\ mp_pc = "constructed"
  /\ stop_event = FALSE
  /\ uploaded_hashes = {}
  /\ uploaded_dependencies = <<>>
  /\ stats = ZeroStats
  /\ upload_queue = <<>>
  /\ failed_tasks = <<>>
  /\ current_memory_usage = 0
  /\ memory_lock = <<>>
  /\ temp_files = {}
  /\ task = EmptyHeap
  /\ dl_pc = NoFutures
  /\ wait_count = NoFutures
  /\ worker = NoWorkers
  /\ queue_wait_count = 0
  /\ filtered_artifacts = <<>>
  /\ returned = <<>>
  /\ requests = {}

\* the pool runs every work item it has a thread for, the driver goes on when
\* it can, and every download and upload call returns
DiskFairness ==
  /\ WF_vars((\E p \in ProjectNames, d \in {"ok", "raise"} : Disk_migrate_project(p, d)) /\ UNCHANGED notPipeVars)
  /\ WF_vars(Disk_await_downloads /\ UNCHANGED notPipeVars)
  /\ WF_vars(Disk_drain_and_stop /\ UNCHANGED notPipeVars)
  /\ WF_vars(Disk_join_and_return /\ UNCHANGED notPipeVars)
  /\ WF_vars((\E i \in DOMAIN dl_pc : Disk_download_start(i)) /\ UNCHANGED notPipeVars)
  /\ WF_vars((\E i \in DOMAIN dl_pc, r \in DiskDownloadResults : Disk_download_artifact(i, r)) /\ UNCHANGED notPipeVars)
  /\ WF_vars((\E i \in DOMAIN dl_pc : Disk_download_put(i)) /\ UNCHANGED notPipeVars)
  /\ WF_vars((\E w \in DOMAIN worker : Disk_worker_start(w)) /\ UNCHANGED notPipeVars)
  /\ \A w \in 1..UploadWorkers(4) :
       /\ WF_vars(Disk_worker_loop(w) /\ UNCHANGED notPipeVars)
       /\ WF_vars(Disk_worker_get(w) /\ UNCHANGED notPipeVars)
       /\ WF_vars((\E r \in DiskUploadResults : Disk_worker_upload(w, r)) /\ UNCHANGED notPipeVars)
       /\ WF_vars(Disk_worker_release(w) /\ UNCHANGED notPipeVars)

MemNext ==
  \/ \E p \in ProjectNames, d \in {"ok", "raise"} : Mem_migrate_project(p, d) /\ UNCHANGED notPipeVars
  \/ Mem_await_downloads /\ UNCHANGED notPipeVars
  \/ Mem_drain_and_stop /\ UNCHANGED notPipeVars
  \/ Mem_join_and_return /\ UNCHANGED notPipeVars
  \/ \E i \in DOMAIN dl_pc : Mem_download_start(i) /\ UNCHANGED notPipeVars
  \/ \E i \in DOMAIN dl_pc : Mem_download_check_memory(i) /\ UNCHANGED notPipeVars
  \/ \E i \in DOMAIN dl_pc : Mem_download_wait(i) /\ UNCHANGED notPipeVars
  \/ \E i \in DOMAIN dl_pc, d \in DownloadResults : Mem_download_to_memory(i, d) /\ UNCHANGED notPipeVars
  \/ \E i \in DOMAIN dl_pc : Mem_download_add_usage(i) /\ UNCHANGED notPipeVars
  \/ \E i \in DOMAIN dl_pc : Mem_download_put(i) /\ UNCHANGED notPipeVars
  \/ \E w \in DOMAIN worker : Mem_worker_start(w) /\ UNCHANGED notPipeVars
  \/ \E w \in DOMAIN worker : Mem_worker_loop(w) /\ UNCHANGED notPipeVars
  \/ \E w \in DOMAIN worker : Mem_worker_get(w) /\ UNCHANGED notPipeVars
  \/ \E w \in DOMAIN worker, r \in UploadResults : Mem_worker_upload(w, r) /\ UNCHANGED notPipeVars
  \/ \E w \in DOMAIN worker : Mem_worker_release(w) /\ UNCHANGED notPipeVars


(***************************************************************************)
(* Strings                                                                 *)
(***************************************************************************)
UpperLetters == "ABCDEFGHIJKLMNOPQRSTUVWXYZ"

LowerLetters == "abcdefghijklmnopqrstuvwxyz"

CharAt(s, i) == SubSeq(s, i, i)

\* the character of `to` at the place c has in `from`, c itself when it has none
MapChar(c, from, to) ==
  IF \E i \in 1..Len(from) : CharAt(from, i) = c
  THEN CharAt(to, CHOOSE i \in 1..Len(from) : CharAt(from, i) = c)
  ELSE c

RECURSIVE MapString(_, _, _)
MapString(s, from, to) ==
  IF s = "" THEN ""
  ELSE MapChar(CharAt(s, 1), from, to) \o MapString(SubSeq(s, 2, Len(s)), from, to)

\* str.upper() and str.lower()
Upper(s) == MapString(s, LowerLetters, UpperLetters)

Lower(s) == MapString(s, UpperLetters, LowerLetters)

\* str.endswith(suffix)
EndsWith(s, suffix) ==
  /\ Len(s) >= Len(suffix)
  /\ SubSeq(s, Len(s) - Len(suffix) + 1, Len(s)) = suffix

\* `sub in s`
Contains(s, sub) ==
  \E i \in 1..(Len(s) - Len(sub) + 1) : SubSeq(s, i, i + Len(sub) - 1) = sub

(***************************************************************************)
(* NexusUploader: repository routing                                       *)
(***************************************************************************)
Absent == ""           \* a key the configuration file does not have (None)

Versions == {"1.2.3-SNAPSHOT", "1.2.3", "2.0-snapshot"}

NexusSections ==
  { [snapshot_repo |-> Absent,     release_repo |-> Absent,    repository |-> Absent],
    [snapshot_repo |-> Absent,     release_repo |-> Absent,    repository |-> "custom"],
    [snapshot_repo |-> "cfg-snap", release_repo |-> Absent,    repository |-> Absent],
    [snapshot_repo |-> Absent,     release_repo |-> "cfg-rel", repository |-> "custom"] }

Repo(n, f) == [name |-> n, format |-> f]

ServerRepositoryLists ==
  { <<Repo("myrepo-snapshot", "maven2"), Repo("myrepo-release", "maven2")>>,
    <<Repo("npm-snapshots", "npm"), Repo("Snap-Hosted", "maven2"),
      Repo("maven-snapshots", "maven2")>>,
    <<Repo("maven-hosted", "maven2"), Repo("Maven-Releases", "maven2")>>,
    <<Repo("raw-release", "raw")>> }

\* config.py lines 89-91: what load_config makes of the nexus: section
load_config(nexus) ==
  [nexus_repository |->
     IF nexus.release_repo # Absent THEN nexus.release_repo
     ELSE IF nexus.repository # Absent THEN nexus.repository
     ELSE "maven-releases",
   nexus_snapshot_repository |-> nexus.snapshot_repo,
   nexus_releases_repository |-> nexus.release_repo]

NoCache == [is_none |-> TRUE, list |-> <<>>]

Cached(list) == [is_none |-> FALSE, list |-> list]

IdleCall == [pc |-> "idle", op |-> "none", version |-> ""]

\* NexusUploader.__init__ on the loaded configuration
InitRoute ==
  /\ nexus_section \in NexusSections
  /\ server_repositories \in ServerRepositoryLists
  /\ repository = load_config(nexus_section).nexus_repository
  /\ snapshot_repo = load_config(nexus_section).nexus_snapshot_repository
  /\ releases_repo = load_config(nexus_section).nexus_releases_repository
  /\ repositories_cache = NoCache
  /\ caller = [t \in 1..RouteThreads |-> IdleCall]
  /\ routed = {}
  /\ fetch_failed = FALSE

\* a different test that compares the version as it is written
is_snapshot_version_as_written(version) == EndsWith(version, "-SNAPSHOT")

\* is_snapshot_version
is_snapshot_version(version) == EndsWith(Upper(version), "-SNAPSHOT")

\* one `for repo in repositories` loop of _find_*_repository from position i
RECURSIVE ScanFrom(_, _, _)
ScanFrom(repositories, word, i) ==
  IF i > Len(repositories) THEN Absent
  ELSE IF Contains(Lower(repositories[i].name), word) /\ repositories[i].format = "maven2"
       THEN repositories[i].name
       ELSE ScanFrom(repositories, word, i + 1)

\* the two loops of a finder: the first word over the whole list, then the second
FindRepository(repositories, first, second) ==
  IF ScanFrom(repositories, first, 1) # Absent
  THEN ScanFrom(repositories, first, 1)
  ELSE ScanFrom(repositories, second, 1)

find_snapshot_repository(repositories) == FindRepository(repositories, "snapshot", "snap")

find_releases_repository(repositories) == FindRepository(repositories, "release", "hosted")

\* the three pure functions above, tabulated over the fixtures
IsSnapshot == [v \in Versions |-> is_snapshot_version(v)]

FoundSnapshot ==
  [l \in ServerRepositoryLists \cup {<<>>} |-> find_snapshot_repository(l)]

FoundReleases ==
  [l \in ServerRepositoryLists \cup {<<>>} |-> find_releases_repository(l)]

\* lines 64-67 and 78-81: the configured or remembered name, when there is one
StoredRepository(version) ==
  IF IsSnapshot[version] THEN snapshot_repo ELSE releases_repo

\* entry of determine_repository(version) up to the test of the cache in
\* _get_all_repositories
Route_determine_repository(t, version) ==
  /\ caller[t].pc = "idle"
  /\ IF StoredRepository(version) # Absent
     THEN /\ routed' = routed \cup
               {[version |-> version, repository |-> StoredRepository(version)]}
          /\ UNCHANGED caller
     ELSE /\ caller' = [caller EXCEPT ![t] =
               [pc |-> IF repositories_cache.is_none THEN "fetch" ELSE "scan",
                op |-> "determine_repository", version |-> version]]
          /\ UNCHANGED routed
  /\ UNCHANGED <<nexus_section, server_repositories, repository, snapshot_repo,
                 releases_repo, repositories_cache, fetch_failed>>

\* get_repository_mapping and, after a successful test_connection,
\* _detect_and_log_repositories: they read the list and remember no name
Route_get_repository_mapping(t) ==
  /\ caller[t].pc = "idle"
  /\ caller' = [caller EXCEPT ![t] =
       [pc |-> IF repositories_cache.is_none THEN "fetch" ELSE "scan",
        op |-> "get_repository_mapping", version |-> ""]]
  /\ UNCHANGED <<nexus_section, server_repositories, repository, snapshot_repo,
                 releases_repo, repositories_cache, routed, fetch_failed>>

\* _get_all_repositories lines 147-160: the answer to the GET arrives
Route_get_all_repositories(t, ok) ==
  /\ caller[t].pc = "fetch"
  /\ repositories_cache' = IF ok THEN Cached(server_repositories) ELSE Cached(<<>>)
  /\ fetch_failed' = (fetch_failed \/ ~ok)
  /\ caller' = [caller EXCEPT ![t].pc = "scan"]
  /\ UNCHANGED <<nexus_section, server_repositories, repository, snapshot_repo,
                 releases_repo, routed>>

\* line 162, the finder's loops and lines 71-77 / 85-91
Route_find_and_return(t) ==
  /\ caller[t].pc = "scan"
  /\ IF caller[t].op = "determine_repository"
     THEN LET version == caller[t].version
              repositories == repositories_cache.list
              found == IF IsSnapshot[version]
                       THEN FoundSnapshot[repositories]
                       ELSE FoundReleases[repositories]
          IN /\ routed' = routed \cup
                  {[version |-> version,
                    repository |-> IF found # Absent THEN found ELSE repository]}
             /\ snapshot_repo' =
                  IF IsSnapshot[version] /\ found # Absent
                  THEN found ELSE snapshot_repo
             /\ releases_repo' =
                  IF ~IsSnapshot[version] /\ found # Absent
                  THEN found ELSE releases_repo
     ELSE UNCHANGED <<routed, snapshot_repo, releases_repo>>
  /\ caller' = [caller EXCEPT ![t] = IdleCall]
  /\ UNCHANGED <<nexus_section, server_repositories, repository,
                 repositories_cache, fetch_failed>>

RouteNext ==
  \/ \E t \in DOMAIN caller, v \in Versions : Route_determine_repository(t, v) /\ UNCHANGED notRouteVars
  \/ \E t \in DOMAIN caller : Route_get_repository_mapping(t) /\ UNCHANGED notRouteVars
  \/ \E t \in DOMAIN caller, ok \in BOOLEAN : Route_get_all_repositories(t, ok) /\ UNCHANGED notRouteVars
  \/ \E t \in DOMAIN caller : Route_find_and_return(t) /\ UNCHANGED notRouteVars

(***************************************************************************)
(* CodingClient._rate_limit                                                *)
(***************************************************************************)
Second == 1000                 \* one second of the clock, in ms

ReleaseDelay == 50             \* time.sleep(0.05) of release_semaphore

Epoch == 1000000               \* a value of time.time() at the first call

RateChoices == {1, 2, 5, 10, 20}   \* requests_per_second, 20 being the default

\* line 90: 1.0 / self.requests_per_second, in ms
min_interval(r) == Second \div r

InitRate ==
  /\ requests_per_second \in RateChoices
  /\ rate_limiter = requests_per_second
  /\ last_request_time = 0
  /\ request_count = 0
  /\ clock \in {Epoch, Epoch + 7}
  /\ rl_pc = "idle"
  /\ current_time = 0
  /\ wake_time = 0
  /\ release_times = EmptyBag
  /\ started_at = 0
  /\ returned_at = <<>>

\* a wrong store of the time at which the call returns
StoredRequestTimeAfterSleep(now, entered) == now

\* line 96: self.last_request_time = current_time, the time read at line 78
StoredRequestTime(now, entered) == entered

\* lines 96-103: store the time, start the release thread, return
RateReturn(entered) ==
  /\ last_request_time' = StoredRequestTime(clock', entered)
  /\ release_times' = release_times (+) SetToBag({clock' + ReleaseDelay})
  /\ returned_at' = Append(returned_at, clock')
  /\ rl_pc' = "idle"

\* lines 74-94: acquire a permit, read the clock, sleep when the last request
\* is less than min_interval old (and then lines 96-103 at once when not)
Rate_rate_limit ==
  /\ rl_pc = "idle"
  /\ Len(returned_at) < MaxCalls
  /\ rate_limiter > 0
  /\ rate_limiter' = rate_limiter - 1
  /\ request_count' = request_count + 1
  /\ current_time' = clock
  /\ started_at' = IF request_count = 0 THEN clock ELSE started_at
  /\ LET time_since_last == clock - last_request_time
     IN IF time_since_last < min_interval(requests_per_second)
        THEN /\ wake_time' = clock + (min_interval(requests_per_second) - time_since_last)
             /\ rl_pc' = "sleeping"
             /\ UNCHANGED <<clock, last_request_time, release_times, returned_at>>
        ELSE /\ UNCHANGED <<clock, wake_time>>
             /\ RateReturn(clock)
  /\ UNCHANGED requests_per_second

\* the caller blocked in acquire() on an empty semaphore, or asleep
CallerWaits == rl_pc = "sleeping" \/ rate_limiter = 0

NextEvent ==
  LET times == (IF rl_pc = "sleeping" THEN {wake_time} ELSE {}) \cup BagToSet(release_times)
  IN CHOOSE x \in times : \A y \in times : x <= y

\* time passes only while the caller waits, up to the next thread due to run
Rate_time_passes ==
  /\ CallerWaits
  /\ clock < NextEvent
  /\ clock' = NextEvent
  /\ UNCHANGED <<requests_per_second, rate_limiter, last_request_time, request_count,
                 rl_pc, current_time, wake_time, release_times, started_at, returned_at>>

\* time.sleep(sleep_time) is over: lines 96-103
Rate_wake ==
  /\ rl_pc = "sleeping"
  /\ clock >= wake_time
  /\ clock' = clock
  /\ RateReturn(current_time)
  /\ UNCHANGED <<requests_per_second, rate_limiter, request_count, current_time,
                 wake_time, started_at>>

\* release_semaphore: a release thread whose 50 ms are over
Rate_release_semaphore(due) ==
  /\ BagIn(due, release_times)
  /\ due <= clock
  /\ release_times' = release_times (-) SetToBag({due})
  /\ rate_limiter' = rate_limiter + 1
  /\ UNCHANGED <<requests_per_second, last_request_time, request_count, clock, rl_pc,
                 current_time, wake_time, started_at, returned_at>>

RateNext ==
  \/ Rate_rate_limit /\ UNCHANGED notRateVars
  \/ Rate_time_passes /\ UNCHANGED notRateVars
  \/ Rate_wake /\ UNCHANGED notRateVars
  \/ \E due \in BagToSet(release_times) : Rate_release_semaphore(due) /\ UNCHANGED notRateVars

\* a client constructed with the default rate and never called
RateIdle ==
  /\ requests_per_second = 20
  /\ rate_limiter = requests_per_second
  /\ last_request_time = 0
  /\ request_count = 0
  /\ clock = Epoch
  /\ rl_pc = "idle"
  /\ current_time = 0
  /\ wake_time = 0
  /\ release_times = EmptyBag
  /\ started_at = 0
  /\ returned_at = <<>>

(***************************************************************************)
(* CodingClient.get_maven_versions                                         *)
(***************************************************************************)
DefaultMaxPages == 1000        \* line 598, without a pagination config

DefaultPageSize == 100         \* line 606, without a pagination config

max_consecutive_empty == 3     \* line 609

NoPagination == [present |-> FALSE, page_size |-> 0, max_pages |-> 0]

Pagination(ps, mp) == [present |-> TRUE, page_size |-> ps, max_pages |-> mp]

\* models.py: PaginationConfig() with its defaults
ModelDefaultPagination == Pagination(100, 50)

PaginationConfigs ==
  {NoPagination, ModelDefaultPagination}
    \cup {Pagination(2, mp) : mp \in 0..MaxConfiguredPages}

Fills == {"empty", "short", "full"}

\* listings: the fill of pages 1..Len(head), then the fill of every later page
PageSources == [head : SeqsUpTo(Fills, MaxHead), rest : {"empty", "full"}]

FillOf(src, n) == IF n <= Len(src.head) THEN src.head[n] ELSE src.rest

\* len() of what get_maven_packages answers for page n asked with PageSize ps
PageItems(src, n, ps) ==
  CASE FillOf(src, n) = "empty" -> 0
    [] FillOf(src, n) = "short" -> ps \div 2
    [] FillOf(src, n) = "full" -> ps

\* lines 597-598
EffectiveMaxPages(cfg) == IF cfg.present THEN cfg.max_pages ELSE DefaultMaxPages

\* line 606
EffectivePageSize(cfg) == IF cfg.present THEN cfg.page_size ELSE DefaultPageSize

NoPackages == [pages |-> <<>>, items |-> 0]

\* all_packages.extend(packages) with the n packages of page
Extend(pkgs, page, n) == [pages |-> Append(pkgs.pages, page), items |-> pkgs.items + n]

InitPage ==
  /\ pagination_config \in PaginationConfigs
  /\ page_source \in PageSources
  /\ pg_pc = "idle"
  /\ max_pages = 0
  /\ page_size = 0
  /\ page_number = 0
  /\ consecutive_empty_pages = 0
  /\ all_packages = NoPackages
  /\ fetched = <<>>
  /\ warned = FALSE
  /\ versions = -1

\* lines 597-609: the limits and the loop's variables
Page_get_maven_versions ==
  /\ pg_pc = "idle"
  /\ max_pages' = EffectiveMaxPages(pagination_config)
  /\ page_size' = EffectivePageSize(pagination_config)
  /\ page_number' = 1
  /\ consecutive_empty_pages' = 0
  /\ all_packages' = NoPackages
  /\ pg_pc' = "loop"
  /\ UNCHANGED <<pagination_config, page_source, fetched, warned, versions>>

\* a loop test that gives up one page early
LoopContinuesBelow(pn, mp) == pn < mp

\* line 611
LoopContinues(pn, mp) == pn <= mp

\* lines 612-654: one pass of the loop up to its continue, its break or the
\* look-ahead request
Page_fetch_page ==
  /\ pg_pc = "loop"
  /\ LoopContinues(page_number, max_pages)
  /\ fetched' = Append(fetched, page_number)
  /\ LET n == PageItems(page_source, page_number, page_size)
     IN IF n = 0
        THEN /\ consecutive_empty_pages' = consecutive_empty_pages + 1
             /\ IF consecutive_empty_pages' >= max_consecutive_empty
                THEN pg_pc' = "after_loop" /\ UNCHANGED page_number
                ELSE pg_pc' = "loop" /\ page_number' = page_number + 1
             /\ UNCHANGED all_packages
        ELSE /\ consecutive_empty_pages' = 0
             /\ all_packages' = Extend(all_packages, page_number, n)
             /\ IF n < page_size
                THEN pg_pc' = "look_ahead" /\ UNCHANGED page_number
                ELSE pg_pc' = "loop" /\ page_number' = page_number + 1
  /\ UNCHANGED <<pagination_config, page_source, max_pages, page_size, warned, versions>>

\* a step that goes on with the page the look-ahead has just merged
AfterLookAheadSamePage(pn) == pn + 1

\* line 651: page_number += 2
AfterLookAhead(pn) == pn + 2

\* lines 642-652: the request for the page after a short one
Page_look_ahead ==
  /\ pg_pc = "look_ahead"
  /\ fetched' = Append(fetched, page_number + 1)
  /\ LET n == PageItems(page_source, page_number + 1, page_size)
     IN IF n = 0
        THEN pg_pc' = "after_loop" /\ UNCHANGED <<page_number, all_packages>>
        ELSE /\ all_packages' = Extend(all_packages, page_number + 1, n)
             /\ page_number' = AfterLookAhead(page_number)
             /\ pg_pc' = "loop"
  /\ UNCHANGED <<pagination_config, page_source, max_pages, page_size,
                 consecutive_empty_pages, warned, versions>>

\* a warning given one page too late
WarnsTruncationLate(pn, mp) == pn > mp + 1

\* line 657
WarnsTruncation(pn, mp) == pn > mp

\* lines 611 (test failing) and 656-683: leave the loop, warn, build the versions
Page_return ==
  /\ \/ pg_pc = "after_loop"
     \/ pg_pc = "loop" /\ ~LoopContinues(page_number, max_pages)
  /\ warned' = WarnsTruncation(page_number, max_pages)
  /\ versions' = all_packages.items
  /\ pg_pc' = "returned"
  /\ UNCHANGED <<pagination_config, page_source, max_pages, page_size, page_number,
                 consecutive_empty_pages, all_packages, fetched>>

PageNext ==
  \/ Page_get_maven_versions /\ UNCHANGED notPageVars
  \/ Page_fetch_page /\ UNCHANGED notPageVars
  \/ Page_look_ahead /\ UNCHANGED notPageVars
  \/ Page_return /\ UNCHANGED notPageVars

\* a client without a pagination config whose listing is never asked for
PageIdle ==
  /\ pagination_config = NoPagination
  /\ page_source = [head |-> <<>>, rest |-> "empty"]
  /\ pg_pc = "unused"
  /\ max_pages = 0
  /\ page_size = 0
  /\ page_number = 0
  /\ consecutive_empty_pages = 0
  /\ all_packages = NoPackages
  /\ fetched = <<>>
  /\ warned = FALSE
  /\ versions = -1

\* the uploader constructed on the default configuration and never called
RouteIdle ==
  /\ nexus_section = [snapshot_repo |-> Absent, release_repo |-> Absent, repository |-> Absent]
  /\ server_repositories = <<>>
  /\ repository = load_config(nexus_section).nexus_repository
  /\ snapshot_repo = Absent
  /\ releases_repo = Absent
  /\ repositories_cache = NoCache
  /\ caller = [t \in {} |-> IdleCall]
  /\ routed = {}
  /\ fetch_failed = FALSE

\* a migrator constructed and never asked to migrate
PipeIdle ==
  /\ kind = "memory"
  /\ max_workers = 12
  /\ source = [p \in ProjectNames |-> <<>>]
  /\ record_files = [p \in ProjectNames |-> NoFile]
  /\ run = 0
  /\ project = "demo"
  /\ mp_pc = "idle"
  /\ stop_event = FALSE
  /\ uploaded_hashes = {}
  /\ uploaded_dependencies = <<>>
  /\ stats = ZeroStats
  /\ upload_queue = <<>>
  /\ failed_tasks = <<>>
  /\ current_memory_usage = 0
  /\ memory_lock = <<>>
  /\ temp_files = {}
  /\ task = EmptyHeap
  /\ dl_pc = NoFutures
  /\ wait_count = NoFutures
  /\ worker = NoWorkers
  /\ queue_wait_count = 0
  /\ filtered_artifacts = <<>>
  /\ returned = <<>>
  /\ requests = {}

(***************************************************************************)
(* Standard two-phase migration: MavenMigrator (migrator.py),              *)
(* MavenDownloader (downloader.py), NexusUploader.upload_directory         *)
(***************************************************************************)
\* MavenArtifact as _parse_maven_package_info builds it from a package
\* "group:artifact", a version and a file of that version
MavenArtifact(group_id, artifact_id, version, packaging, file_name) ==
  [group_id |-> group_id, artifact_id |-> artifact_id, version |-> version,
   packaging |-> packaging,
   file_path |-> group_id \o ":" \o artifact_id \o "/" \o version \o "/" \o file_name]

StdLibJar == MavenArtifact("com.example", "lib", "1.0", "jar", "lib-1.0.jar")

StdLibSources == MavenArtifact("com.example", "lib", "1.0", "jar", "lib-1.0-sources.jar")

StdLibPom == MavenArtifact("com.example", "lib", "1.0", "pom", "lib-1.0.pom")

StdLib2Jar == MavenArtifact("com.example", "lib", "2.0", "jar", "lib-2.0.jar")

StdToolsJar == MavenArtifact("org.tools", "cli", "0.1", "jar", "cli-0.1.jar")

DemoPool == {StdLibJar, StdLibSources, StdLibPom, StdLib2Jar}

StdArtifacts == DemoPool \cup {StdToolsJar}

\* the listings get_maven_artifacts can return for the repository of "demo"
Listings == SeqsUpTo(DemoPool, MaxListing)

\* projects of the source service, in the order get_all_projects lists them;
\* each has one Maven repository, "releases"
AllProjects == <<"demo", "tools">>

ExistingProjects == Range(AllProjects)

RepositoryName == "releases"

ProjectNameLists == {<<>>, <<"demo">>, <<"ghost", "demo">>, <<"demo", "tools">>}

CliProjectNames == {"demo", "ghost"}

\* what a call of the source service can do while a project is prepared
ProjectFaults == {"none", "repositories_raise", "artifacts_raise"}

TransferOutcomes == {"success", "failure", "raise"}

\* str.replace for one character
Replace(s, from, to) == MapString(s, from, to)

\* str.split(sep) for a separator of one character
RECURSIVE Split(_, _)
Split(s, sep) ==
  IF ~Contains(s, sep) THEN <<s>>
  ELSE LET i == CHOOSE k \in 1..Len(s) :
                  /\ CharAt(s, k) = sep
                  /\ \A j \in 1..(k - 1) : CharAt(s, j) # sep
       IN <<SubSeq(s, 1, i - 1)>> \o Split(SubSeq(s, i + 1, Len(s)), sep)

\* sep.join(parts)
RECURSIVE Join(_, _)
Join(parts, sep) ==
  IF parts = <<>> THEN ""
  ELSE IF Len(parts) = 1 THEN parts[1]
  ELSE parts[1] \o sep \o Join(Tail(parts), sep)

\* a key that tells the files of one coordinate apart
FileKeyWithPath(artifact) ==
  artifact.group_id \o ":" \o artifact.artifact_id \o ":" \o artifact.version
    \o ":" \o artifact.packaging \o ":" \o artifact.file_path

\* f"{group_id}:{artifact_id}:{version}:{packaging}"
FileKey(artifact) ==
  artifact.group_id \o ":" \o artifact.artifact_id \o ":" \o artifact.version
    \o ":" \o artifact.packaging

\* the loop of _filter_duplicate_files from its i-th iteration on
RECURSIVE FilterFrom(_, _, _, _)
FilterFrom(artifacts, i, seen_files, unique) ==
  IF i > Len(artifacts) THEN unique
  ELSE LET file_key == FileKey(artifacts[i])
       IN IF file_key \notin seen_files
          THEN FilterFrom(artifacts, i + 1, seen_files \cup {file_key},
                          Append(unique, artifacts[i]))
          ELSE FilterFrom(artifacts, i + 1, seen_files, unique)

filter_duplicate_files(artifacts) == FilterFrom(artifacts, 1, {}, <<>>)

\* _build_local_path, relative to config.download_path
build_local_path(base_path, artifact) ==
  LET group_path == Replace(artifact.group_id, ".", "/")
      filename ==
        IF artifact.packaging = "pom"
        THEN artifact.artifact_id \o "-" \o artifact.version \o ".pom"
        ELSE IF artifact.packaging = "jar" /\ EndsWith(artifact.file_path, "-sources.jar")
        THEN artifact.artifact_id \o "-" \o artifact.version \o "-sources.jar"
        ELSE artifact.artifact_id \o "-" \o artifact.version \o "." \o artifact.packaging
  IN base_path \o "/" \o group_path \o "/" \o artifact.artifact_id
       \o "/" \o artifact.version \o "/" \o filename

LocalPath == [a \in StdArtifacts |-> build_local_path(RepositoryName, a)]

LocalPaths == Range(LocalPath)

\* a path needing the seven parts of a group of four words
put_path_long(maven_path) ==
  LET parts == Split(maven_path, "/")
      n == Len(parts)
  IN IF n >= 7
     THEN LET group_id == Join(SubSeq(parts, 1, n - 3), ".")
              group_path == Replace(group_id, ".", "/")
          IN group_path \o "/" \o parts[n - 2] \o "/" \o parts[n - 1] \o "/" \o parts[n]
     ELSE Absent

\* upload_file lines 221-233: the path of the PUT below /repository/{repo}/,
\* Absent when the path has fewer than four parts (ValueError)
put_path(maven_path) ==
  LET parts == Split(maven_path, "/")
      n == Len(parts)
  IN IF n >= 4
     THEN LET group_id == Join(SubSeq(parts, 1, n - 3), ".")
              group_path == Replace(group_id, ".", "/")
          IN group_path \o "/" \o parts[n - 2] \o "/" \o parts[n - 1] \o "/" \o parts[n]
     ELSE Absent

PutPath == [f \in LocalPaths |-> put_path(f)]

\* _check_file_exists line 443: `maven_path in asset.get('path', '')`
PathWithin == [f \in LocalPaths, asset \in Range(PutPath) |-> Contains(asset, f)]

check_file_exists(maven_path, assets) == \E asset \in assets : PathWithin[maven_path, asset]

ZeroDownloadStats ==
  [total_artifacts |-> 0, downloaded |-> 0, failed |-> 0, failed_files |-> <<>>]

ZeroUploadStats ==
  [total_files |-> 0, uploaded |-> 0, failed |-> 0, skipped |-> 0,
   failed_files |-> <<>>, uploaded_files |-> <<>>]

\* migrate_project lines 171-177; "skipped" and "error" are the keys the
\* code adds later, read here with the defaults of dict.get
ZeroProjectStats ==
  [downloaded |-> 0, download_failures |-> 0, uploaded |-> 0, upload_failures |-> 0,
   skipped |-> 0, error |-> Absent]

ZeroTotalStats ==
  [projects |-> <<>>, total_artifacts_downloaded |-> 0, total_artifacts_uploaded |-> 0,
   total_download_failures |-> 0, total_upload_failures |-> 0, errors |-> <<>>]

NoCall == [op |-> "none", dry_run |-> FALSE]

NoResult == [outcome |-> "none", value |-> ZeroProjectStats]

\* a MavenMigrator constructed on its configuration, an empty download
\* directory and an empty destination
InitStd ==
  /\ project_names \in ProjectNameLists
  /\ coding_listing \in {[p \in ExistingProjects |->
                            IF p = "demo" THEN l ELSE <<StdToolsJar>>] : l \in Listings}
  /\ std_pc = "ready"
  /\ std_call = NoCall
  /\ std_projects = <<>>
  /\ project_index = 0
  /\ project_stats = ZeroProjectStats
  /\ total_stats = ZeroTotalStats
  /\ all_artifacts = <<>>
  /\ unique_artifacts = <<>>
  /\ pending_downloads = {}
  /\ download_stats = ZeroDownloadStats
  /\ download_directory = {}
  /\ files_to_upload = {}
  /\ upload_stats = ZeroUploadStats
  /\ nexus_assets = {}
  /\ std_requests = {}
  /\ std_result = NoResult

\* migrate_all lines 94-132; neither cleanup nor dry_run is read again
Std_migrate_all(dry_run, connected, listed) ==
  /\ std_pc = "ready"
  /\ std_call' = [op |-> "migrate_all", dry_run |-> dry_run]
  /\ IF ~connected
     THEN /\ std_result' = [outcome |-> "raised", value |-> "ConnectionError"]
          /\ std_pc' = "returned"
          /\ UNCHANGED <<std_projects, project_index, total_stats>>
     ELSE IF project_names = <<>> /\ ~listed
     THEN /\ std_result' = [outcome |-> "raised", value |-> "get_all_projects"]
          /\ std_pc' = "returned"
          /\ UNCHANGED <<std_projects, project_index, total_stats>>
     ELSE /\ std_projects' = IF project_names = <<>> THEN AllProjects ELSE project_names
          /\ project_index' = 1
          /\ total_stats' = ZeroTotalStats
          /\ std_pc' = "migrate_project"
          /\ UNCHANGED std_result
  /\ UNCHANGED <<project_names, coding_listing, project_stats, all_artifacts,
                 unique_artifacts, pending_downloads, download_stats,
                 download_directory, files_to_upload, upload_stats, nexus_assets,
                 std_requests>>

\* migrate_project_cli lines 222-259 up to the call of migrate_project
Std_migrate_project_cli(project_name, dry_run, connected) ==
  /\ std_pc = "ready"
  /\ std_call' = [op |-> "migrate_project_cli", dry_run |-> dry_run]
  /\ IF ~connected
     THEN /\ std_result' = [outcome |-> "returned",
                            value |-> [project |-> project_name, status |-> "failed"]]
          /\ std_pc' = "returned"
          /\ UNCHANGED <<std_projects, project_index>>
     ELSE IF dry_run
     THEN /\ std_result' = [outcome |-> "returned",
                            value |-> [project |-> project_name, status |-> "success"]]
          /\ std_pc' = "returned"
          /\ UNCHANGED <<std_projects, project_index>>
     ELSE /\ std_projects' = <<project_name>>
          /\ project_index' = 1
          /\ std_pc' = "migrate_project"
          /\ UNCHANGED std_result
  /\ UNCHANGED <<project_names, coding_listing, project_stats, total_stats,
                 all_artifacts, unique_artifacts, pending_downloads, download_stats,
                 download_directory, files_to_upload, upload_stats, nexus_assets,
                 std_requests>>

\* migrate_project lines 171-182 with download_project_artifacts and
\* download_repository_artifacts up to the submission of the downloads
Std_download_project_artifacts(fault) ==
  /\ std_pc = "migrate_project"
  /\ LET project_name == std_projects[project_index]
     IN IF project_name \notin ExistingProjects
        THEN \* ValueError of line 49, caught at migrate_project line 204
             /\ fault = "none"
             /\ project_stats' =
                  [ZeroProjectStats EXCEPT !.error =
                     "Error migrating project " \o project_name
                       \o ": Project not found: " \o project_name]
             /\ std_pc' = "project_return"
             /\ UNCHANGED <<all_artifacts, unique_artifacts, pending_downloads,
                            download_stats>>
        ELSE IF fault = "repositories_raise"
        THEN \* get_artifact_repositories raises, caught at line 204
             /\ project_stats' =
                  [ZeroProjectStats EXCEPT !.error =
                     "Error migrating project " \o project_name \o ": repositories"]
             /\ std_pc' = "project_return"
             /\ UNCHANGED <<all_artifacts, unique_artifacts, pending_downloads,
                            download_stats>>
        ELSE LET listing == IF fault = "artifacts_raise" THEN <<>>
                            ELSE coding_listing[project_name]
                 unique == filter_duplicate_files(listing)
             IN \* an exception of get_maven_artifacts is caught at line 133
                /\ project_stats' = ZeroProjectStats
                /\ all_artifacts' = listing
                /\ unique_artifacts' = unique
                /\ pending_downloads' = DOMAIN unique
                /\ download_stats' = [ZeroDownloadStats EXCEPT !.total_artifacts = Len(unique)]
                /\ std_pc' = "downloading"
  /\ UNCHANGED <<project_names, coding_listing, std_call, std_projects, project_index,
                 total_stats, download_directory, files_to_upload, upload_stats,
                 nexus_assets, std_requests, std_result>>

\* download_single_artifact for one submitted artifact and the iteration of
\* the as_completed loop (lines 275-291) that takes its result
Std_download_single_artifact(i, outcome) ==
  /\ std_pc = "downloading"
  /\ i \in pending_downloads
  /\ LET artifact == unique_artifacts[i]
         local_path == LocalPath[artifact]
         project_name == std_projects[project_index]
     IN IF local_path \in download_directory
        THEN \* lines 237-239: the file is there already
             /\ outcome = "success"
             /\ download_stats' = [download_stats EXCEPT !.downloaded = @ + 1]
             /\ UNCHANGED <<download_directory, std_requests>>
        ELSE /\ std_requests' = std_requests \cup
                  {[op |-> "download", project |-> project_name,
                    path |-> artifact.file_path, ok |-> outcome = "success"]}
             /\ IF outcome = "success"
                THEN /\ download_directory' = download_directory \cup {local_path}
                     /\ download_stats' = [download_stats EXCEPT !.downloaded = @ + 1]
                ELSE /\ download_stats' =
                          [download_stats EXCEPT
                             !.failed = @ + 1,
                             !.failed_files = Append(@, artifact.file_path)]
                     /\ UNCHANGED download_directory
  /\ pending_downloads' = pending_downloads \ {i}
  /\ UNCHANGED <<project_names, coding_listing, std_pc, std_call, std_projects,
                 project_index, project_stats, total_stats, all_artifacts,
                 unique_artifacts, files_to_upload, upload_stats, nexus_assets,
                 std_result>>

\* migrate_project lines 184-194 and upload_directory lines 315-339
Std_upload_directory ==
  /\ std_pc = "downloading"
  /\ pending_downloads = {}
  /\ project_stats' = [project_stats EXCEPT
                         !.downloaded = download_stats.downloaded,
                         !.download_failures = download_stats.failed]
  /\ IF download_stats.downloaded > 0
     THEN /\ files_to_upload' = download_directory
          /\ upload_stats' = [ZeroUploadStats EXCEPT
                                !.total_files = Cardinality(download_directory)]
          /\ std_pc' = "uploading"
     ELSE /\ std_pc' = "project_return"
          /\ UNCHANGED <<files_to_upload, upload_stats>>
  /\ UNCHANGED <<project_names, coding_listing, std_call, std_projects, project_index,
                 total_stats, all_artifacts, unique_artifacts, pending_downloads,
                 download_stats, download_directory, nexus_assets, std_requests,
                 std_result>>

\* what a search of the destination's assets can do
QueryOutcomes == {"answers", "fails"}

\* an existence check that takes a failed search for a file found
file_reported_present_on_failure(maven_path, assets, query) ==
  query = "fails" \/ check_file_exists(maven_path, assets)

\* _check_file_exists lines 419-449: True when the search is answered and an
\* asset's path holds maven_path; False when the search raises or is refused
file_reported_present(maven_path, assets, query) ==
  query = "answers" /\ check_file_exists(maven_path, assets)

\* one iteration of the loop of _upload_batch, lines 374-406
Std_upload_batch(maven_path, outcome, query) ==
  /\ std_pc = "uploading"
  /\ maven_path \in files_to_upload
  /\ IF file_reported_present(maven_path, nexus_assets, query)
     THEN /\ outcome = "success"
          /\ upload_stats' = [upload_stats EXCEPT !.skipped = @ + 1]
          /\ UNCHANGED <<nexus_assets, std_requests>>
     ELSE /\ std_requests' = std_requests \cup
               {[op |-> "upload", project |-> std_projects[project_index],
                 path |-> maven_path, ok |-> outcome = "success"]}
          /\ IF outcome = "success" /\ PutPath[maven_path] # Absent
             THEN /\ nexus_assets' = nexus_assets \cup {PutPath[maven_path]}
                  /\ upload_stats' = [upload_stats EXCEPT
                                        !.uploaded = @ + 1,
                                        !.uploaded_files = Append(@, maven_path)]
             ELSE /\ upload_stats' = [upload_stats EXCEPT
                                        !.failed = @ + 1,
                                        !.failed_files = Append(@, maven_path)]
                  /\ UNCHANGED nexus_assets
  /\ files_to_upload' = files_to_upload \ {maven_path}
  /\ UNCHANGED <<project_names, coding_listing, std_pc, std_call, std_projects,
                 project_index, project_stats, total_stats, all_artifacts,
                 unique_artifacts, pending_downloads, download_stats,
                 download_directory, std_result>>

\* migrate_project lines 196-202
Std_upload_return ==
  /\ std_pc = "uploading"
  /\ files_to_upload = {}
  /\ project_stats' = [project_stats EXCEPT
                         !.uploaded = upload_stats.uploaded,
                         !.upload_failures = upload_stats.failed,
                         !.skipped = upload_stats.skipped]
  /\ std_pc' = "project_return"
  /\ UNCHANGED <<project_names, coding_listing, std_call, std_projects, project_index,
                 total_stats, all_artifacts, unique_artifacts, pending_downloads,
                 download_stats, download_directory, files_to_upload, upload_stats,
                 nexus_assets, std_requests, std_result>>

\* migrate_project has returned its dict: migrate_all lines 139-155 add it to
\* the totals and go on with the next project, migrate_project_cli line 251
\* returns it.  migrate_project catches every Exception itself (line 204),
\* so the handler of migrate_all lines 149-152 has nothing to catch.
Std_project_return ==
  /\ std_pc = "project_return"
  /\ IF std_call.op = "migrate_all"
     THEN LET totals ==
                [total_stats EXCEPT
                   !.projects = Append(@, <<std_projects[project_index], project_stats>>),
                   !.total_artifacts_downloaded = @ + project_stats.downloaded,
                   !.total_artifacts_uploaded = @ + project_stats.uploaded,
                   !.total_download_failures = @ + project_stats.download_failures,
                   !.total_upload_failures = @ + project_stats.upload_failures]
          IN /\ total_stats' = totals
             /\ IF project_index < Len(std_projects)
                THEN /\ project_index' = project_index + 1
                     /\ std_pc' = "migrate_project"
                     /\ UNCHANGED std_result
                ELSE /\ std_result' = [outcome |-> "returned", value |-> totals]
                     /\ std_pc' = "returned"
                     /\ UNCHANGED project_index
     ELSE /\ std_result' = [outcome |-> "returned", value |-> project_stats]
          /\ std_pc' = "returned"
          /\ UNCHANGED <<total_stats, project_index>>
  /\ UNCHANGED <<project_names, coding_listing, std_call, std_projects, project_stats,
                 all_artifacts, unique_artifacts, pending_downloads, download_stats,
                 download_directory, files_to_upload, upload_stats, nexus_assets,
                 std_requests>>

StdNext ==
  \/ \E dry_run, connected, listed \in BOOLEAN :
       Std_migrate_all(dry_run, connected, listed) /\ UNCHANGED notStdVars
  \/ \E project_name \in CliProjectNames, dry_run, connected \in BOOLEAN :
       Std_migrate_project_cli(project_name, dry_run, connected) /\ UNCHANGED notStdVars
  \/ \E fault \in ProjectFaults :
       Std_download_project_artifacts(fault) /\ UNCHANGED notStdVars
  \/ \E i \in pending_downloads, outcome \in TransferOutcomes :
       Std_download_single_artifact(i, outcome) /\ UNCHANGED notStdVars
  \/ Std_upload_directory /\ UNCHANGED notStdVars
  \/ \E maven_path \in files_to_upload, outcome \in TransferOutcomes, query \in QueryOutcomes :
       Std_upload_batch(maven_path, outcome, query) /\ UNCHANGED notStdVars
  \/ Std_upload_return /\ UNCHANGED notStdVars
  \/ Std_project_return /\ UNCHANGED notStdVars

\* a MavenMigrator never constructed
StdIdle ==
  /\ project_names = <<>>
  /\ coding_listing = [p \in ExistingProjects |-> <<>>]
  /\ std_pc = "unused"
  /\ std_call = NoCall
  /\ std_projects = <<>>
  /\ project_index = 0
  /\ project_stats = ZeroProjectStats
  /\ total_stats = ZeroTotalStats
  /\ all_artifacts = <<>>
  /\ unique_artifacts = <<>>
  /\ pending_downloads = {}
  /\ download_stats = ZeroDownloadStats
  /\ download_directory = {}
  /\ files_to_upload = {}
  /\ upload_stats = ZeroUploadStats
  /\ nexus_assets = {}
  /\ std_requests = {}
  /\ std_result = NoResult

(***************************************************************************)
(* The stop command (cli.py): stop and _find_migration_processes           *)
(***************************************************************************)
\* psutil's create_time has sub-second resolution: time is counted in ticks
TicksPerSecond == 2

CreateTimes == 0..2

Pids == 1..MaxProcesses

CommandLines == {"cnm migrate --projects demo", "python manage.py migrate", "sshd -D"}

\* lines 582-587: the signature test on the joined command line
is_migration_process(cmdline_str) ==
  \/ Contains(cmdline_str, "coding_migrator")
  \/ Contains(cmdline_str, "memory_pipeline_migrator")
  \/ (Contains(cmdline_str, "python") /\ Contains(cmdline_str, "migrate"))
  \/ (Contains(cmdline_str, "cnm")
        /\ (Contains(cmdline_str, "migrate") \/ Contains(cmdline_str, "memory")))

IsMigrationProcess == [c \in CommandLines |-> is_migration_process(c)]

\* lines 602 and 627: create_time.strftime("%Y-%m-%d %H:%M:%S").  The text
\* has fixed-width fields down to the second, so it is ordered as the whole
\* seconds are; it stands here as that number of seconds.
strftime(create_time) == create_time \div TicksPerSecond

\* a sort key that keeps the ticks
create_time_exact(create_time) == create_time

\* line 643: the key of migration_processes.sort
SortKey(create_time) == strftime(create_time)

\* list.sort(key=...) is stable: p goes before q when its key is smaller, or
\* equal with p earlier in process_iter's order, which is by pid
GoesBefore(p, q) ==
  \/ SortKey(processes[p].create_time) < SortKey(processes[q].create_time)
  \/ /\ SortKey(processes[p].create_time) = SortKey(processes[q].create_time)
     /\ p < q

RECURSIVE SortedProcesses(_)
SortedProcesses(S) ==
  IF S = {} THEN <<>>
  ELSE LET first == CHOOSE p \in S : \A q \in S \ {p} : GoesBefore(p, q)
       IN <<first>> \o SortedProcesses(S \ {first})

\* _find_migration_processes over the processes that exist now
find_migration_processes ==
  SortedProcesses({p \in Pids : /\ processes[p].state = "running"
                                /\ IsMigrationProcess[processes[p].cmdline]})

\* str.strip() for blanks
RECURSIVE Strip(_)
Strip(s) ==
  IF s = "" THEN ""
  ELSE IF CharAt(s, 1) = " " THEN Strip(SubSeq(s, 2, Len(s)))
  ELSE IF CharAt(s, Len(s)) = " " THEN Strip(SubSeq(s, 1, Len(s) - 1))
  ELSE s

Responses == {"y", "yes", "Y", " Yes ", "n", "no", ""}

\* lines 419-420: input().strip().lower() in ['y', 'yes']
Confirmed == [r \in Responses |-> Lower(Strip(r)) \in {"y", "yes"}]

InitStop ==
  /\ processes \in [Pids -> [cmdline : CommandLines, create_time : CreateTimes,
                             state : {"running"}]]
  /\ stop_pc = "ready"
  /\ stop_options = [force |-> FALSE, all |-> FALSE]
  /\ migration_processes = <<>>
  /\ processes_to_kill = <<>>
  /\ kill_index = 0
  /\ signals = <<>>
  /\ answer = ""
  /\ stop_report = <<>>
  /\ success_count = 0
  /\ failed_count = 0

\* lines 389-417: find the processes, select, and go on to the prompt or to
\* the loop
Stop_stop(force, all) ==
  /\ stop_pc = "ready"
  /\ stop_options' = [force |-> force, all |-> all]
  /\ LET found == find_migration_processes
     IN /\ migration_processes' = found
        /\ IF found = <<>>
           THEN /\ stop_pc' = "done"
                /\ UNCHANGED <<processes_to_kill, kill_index>>
           ELSE /\ processes_to_kill' = IF all THEN found ELSE <<found[1]>>
                /\ kill_index' = 1
                /\ stop_pc' = IF force THEN "terminate" ELSE "confirm"
  /\ UNCHANGED <<processes, signals, answer, stop_report, success_count, failed_count>>

\* lines 419-422: the operator's answer
Stop_confirm(response) ==
  /\ stop_pc = "confirm"
  /\ answer' = response
  /\ stop_pc' = IF Confirmed[response] THEN "terminate" ELSE "done"
  /\ UNCHANGED <<processes, stop_options, migration_processes, processes_to_kill,
                 kill_index, signals, stop_report, success_count, failed_count>>

\* the loop moves on to the next process, or ends
NextProcess ==
  /\ kill_index' = kill_index + 1
  /\ stop_pc' = IF kill_index < Len(processes_to_kill) THEN "terminate" ELSE "done"

\* lines 429-435 and 454-459: psutil.Process(pid) and process.terminate()
Stop_terminate(denied) ==
  /\ stop_pc = "terminate"
  /\ LET pid == processes_to_kill[kill_index]
     IN IF processes[pid].state = "exited"
        THEN \* psutil.NoSuchProcess
             /\ ~denied
             /\ success_count' = success_count + 1
             /\ stop_report' = Append(stop_report, <<pid, "gone", "success">>)
             /\ NextProcess
             /\ UNCHANGED <<signals, failed_count>>
        ELSE IF denied
        THEN \* any other exception, psutil.AccessDenied for one
             /\ failed_count' = failed_count + 1
             /\ stop_report' = Append(stop_report, <<pid, "error", "failed">>)
             /\ NextProcess
             /\ UNCHANGED <<signals, success_count>>
        ELSE /\ signals' = Append(signals, <<pid, "SIGTERM">>)
             /\ stop_pc' = "wait"
             /\ UNCHANGED <<kill_index, stop_report, success_count, failed_count>>
  /\ UNCHANGED <<processes, stop_options, migration_processes, processes_to_kill, answer>>

\* lines 438-452: process.wait(timeout=10) and what follows it
Stop_wait(exits) ==
  /\ stop_pc = "wait"
  /\ LET pid == processes_to_kill[kill_index]
     IN /\ processes[pid].state = "exited" => exits
        /\ IF exits
           THEN /\ processes' = [processes EXCEPT ![pid].state = "exited"]
                /\ success_count' = success_count + 1
                /\ stop_report' = Append(stop_report, <<pid, "terminated", "success">>)
                /\ UNCHANGED <<signals, failed_count>>
           ELSE IF stop_options.force
           THEN \* process.kill() and process.wait(timeout=5)
                /\ signals' = Append(signals, <<pid, "SIGKILL">>)
                /\ processes' = [processes EXCEPT ![pid].state = "exited"]
                /\ success_count' = success_count + 1
                /\ stop_report' = Append(stop_report, <<pid, "killed", "success">>)
                /\ UNCHANGED failed_count
           ELSE /\ failed_count' = failed_count + 1
                /\ stop_report' = Append(stop_report, <<pid, "timeout", "failed">>)
                /\ UNCHANGED <<processes, signals, success_count>>
  /\ NextProcess
  /\ UNCHANGED <<stop_options, migration_processes, processes_to_kill, answer>>

\* a process ends on its own while the command runs
Process_exits(pid) ==
  /\ stop_pc \notin {"unused", "done"}
  /\ processes[pid].state = "running"
  /\ processes' = [processes EXCEPT ![pid].state = "exited"]
  /\ UNCHANGED <<stop_pc, stop_options, migration_processes, processes_to_kill,
                 kill_index, signals, answer, stop_report, success_count, failed_count>>

StopNext ==
  \/ \E force, all \in BOOLEAN : Stop_stop(force, all) /\ UNCHANGED notStopVars
  \/ \E response \in Responses : Stop_confirm(response) /\ UNCHANGED notStopVars
  \/ \E denied \in BOOLEAN : Stop_terminate(denied) /\ UNCHANGED notStopVars
  \/ \E exits \in BOOLEAN : Stop_wait(exits) /\ UNCHANGED notStopVars
  \/ \E pid \in Pids : Process_exits(pid) /\ UNCHANGED notStopVars

\* no stop command and no process
StopIdle ==
  /\ processes = [p \in Pids |-> [cmdline |-> "sshd -D", create_time |-> 0,
                                  state |-> "exited"]]
  /\ stop_pc = "unused"
  /\ stop_options = [force |-> FALSE, all |-> FALSE]
  /\ migration_processes = <<>>
  /\ processes_to_kill = <<>>
  /\ kill_index = 0
  /\ signals = <<>>
  /\ answer = ""
  /\ stop_report = <<>>
  /\ success_count = 0
  /\ failed_count = 0

(***************************************************************************)
(* Ledger persistence of a memory-pipeline run: the save_counter of         *)
(* _upload_worker and the final save of migrate_project.  The tasks of     *)
(* the run have distinct coordinates, so a set of hashes is known by its   *)
(* size.                                                                   *)
(***************************************************************************)
InitLedger ==
  /\ ledger_workers \in {UploadWorkers(mw) : mw \in MaxWorkersChoices}
  /\ ledger_queue = MaxUploads
  /\ save_counter = [w \in 1..ledger_workers |-> 0]
  /\ ledger_pc = [w \in 1..ledger_workers |-> "get"]
  /\ ledger_uploaded = 0
  /\ ledger_saved = 0
  /\ ledger_run = "running"

\* line 451: a worker takes the next task
Ledger_get(w) ==
  /\ ledger_run = "running"
  /\ ledger_pc[w] = "get"
  /\ ledger_queue > 0
  /\ ledger_queue' = ledger_queue - 1
  /\ ledger_pc' = [ledger_pc EXCEPT ![w] = "upload"]
  /\ UNCHANGED <<ledger_workers, save_counter, ledger_uploaded, ledger_saved, ledger_run>>

\* lines 467-506: the upload and, after a success, the periodic save
Ledger_upload(w, success) ==
  /\ ledger_run = "running"
  /\ ledger_pc[w] = "upload"
  /\ IF success
     THEN /\ ledger_uploaded' = ledger_uploaded + 1
          /\ save_counter' = [save_counter EXCEPT ![w] = @ + 1]
          /\ ledger_saved' = IF SaveDue(save_counter[w] + 1)
                             THEN ledger_uploaded + 1
                             ELSE ledger_saved
     ELSE UNCHANGED <<ledger_uploaded, save_counter, ledger_saved>>
  /\ ledger_pc' = [ledger_pc EXCEPT ![w] = "get"]
  /\ UNCHANGED <<ledger_workers, ledger_queue, ledger_run>>

\* migrate_project lines 207-233: the queue is drained or the drain wait ran
\* out with tasks still queued, stop_event is set, the workers have left
\* their loops, and the finally block saves the ledger
Ledger_return ==
  /\ ledger_run = "running"
  /\ \A w \in 1..ledger_workers : ledger_pc[w] = "get"
  /\ ledger_saved' = ledger_uploaded
  /\ ledger_run' = "returned"
  /\ UNCHANGED <<ledger_workers, ledger_queue, save_counter, ledger_pc, ledger_uploaded>>

LedgerNext ==
  \/ \E w \in 1..ledger_workers : Ledger_get(w) /\ UNCHANGED notLedgerVars
  \/ \E w \in 1..ledger_workers, success \in BOOLEAN :
       Ledger_upload(w, success) /\ UNCHANGED notLedgerVars
  \/ Ledger_return /\ UNCHANGED notLedgerVars

\* no run
LedgerIdle ==
  /\ ledger_workers = 0
  /\ ledger_queue = 0
  /\ save_counter = <<>>
  /\ ledger_pc = <<>>
  /\ ledger_uploaded = 0
  /\ ledger_saved = 0
  /\ ledger_run = "unused"

(***************************************************************************)
(* The migrate command on one MemoryPipelineMigrator (cli.py lines 225-285) *)
(***************************************************************************)
ReuseProjects == {"demo", "tools"}

ArtTool10 ==
  [group_id |-> "com.example", artifact_id |-> "tool", version |-> "1.0",
   packaging |-> "jar", file_name |-> "tool-1.0.jar"]

\* what the two projects list: demo nothing or two libraries, tools its tool
\* or a library that demo lists too
ReuseSources ==
  {[p \in ReuseProjects |-> IF p = "demo" THEN demo ELSE tools] :
     demo \in {<<>>, <<ArtLib10, ArtLib20>>}, tools \in {<<ArtTool10>>, <<ArtLib10>>}}

\* target/ at the start of the command: no ledger file, or a ledger file of
\* tools that an earlier command left without entries
ReuseRecordFiles ==
  {[p \in ReuseProjects |-> IF p = "demo" THEN NoFile ELSE tools] :
     tools \in {NoFile, SavedRecords({}, <<>>)}}

\* line 226: migrator = MemoryPipelineMigrator(config), with project lists
\* of two projects
InitReuse ==
  /\ kind = "memory"
  /\ max_workers \in {2, 4}
  /\ source \in ReuseSources
  /\ record_files \in ReuseRecordFiles
  /\ run = 0
  /\ project = "demo"
  /\ mp_pc = "constructed"
  /\ stop_event = FALSE
  /\ uploaded_hashes = {}
  /\ uploaded_dependencies = <<>>
  /\ stats = ZeroStats
  /\ upload_queue = <<>>
  /\ failed_tasks = <<>>
  /\ current_memory_usage = 0
  /\ memory_lock = <<>>
  /\ temp_files = {}
  /\ task = EmptyHeap
  /\ dl_pc = NoFutures
  /\ wait_count = NoFutures
  /\ worker = NoWorkers
  /\ queue_wait_count = 0
  /\ filtered_artifacts = <<>>
  /\ returned = <<>>
  /\ requests = {}

\* the project the loop of lines 272-275 / 282-285 is at: demo, then tools
ProjectOfTurn == IF run = 0 THEN "demo" ELSE "tools"

\* lines 272-275 / 282-285: the loop goes on to its next project with the
\* migrator of line 226
Cli_next_project ==
  /\ kind = "memory"
  /\ mp_pc = "returned"
  /\ run < MaxRuns
  /\ mp_pc' = "constructed"
  /\ UNCHANGED <<kind, max_workers, source, record_files, run, project,
                 queue_wait_count, filtered_artifacts, stop_event, uploaded_hashes,
                 uploaded_dependencies, stats, upload_queue, failed_tasks,
                 current_memory_usage, memory_lock, temp_files, task, dl_pc,
                 wait_count, worker, returned, requests>>

ReuseNext ==
  \/ \E d \in {"ok", "raise"} : Mem_migrate_project(ProjectOfTurn, d) /\ UNCHANGED notPipeVars
  \/ Cli_next_project /\ UNCHANGED notPipeVars
  \/ Mem_await_downloads /\ UNCHANGED notPipeVars
  \/ Mem_drain_and_stop /\ UNCHANGED notPipeVars
  \/ Mem_join_and_return /\ UNCHANGED notPipeVars
  \/ \E i \in DOMAIN dl_pc : Mem_download_start(i) /\ UNCHANGED notPipeVars
  \/ \E i \in DOMAIN dl_pc : Mem_download_check_memory(i) /\ UNCHANGED notPipeVars
  \/ \E i \in DOMAIN dl_pc : Mem_download_wait(i) /\ UNCHANGED notPipeVars
  \/ \E i \in DOMAIN dl_pc, d \in DownloadResults : Mem_download_to_memory(i, d) /\ UNCHANGED notPipeVars
  \/ \E i \in DOMAIN dl_pc : Mem_download_add_usage(i) /\ UNCHANGED notPipeVars
  \/ \E i \in DOMAIN dl_pc : Mem_download_put(i) /\ UNCHANGED notPipeVars
  \/ \E w \in DOMAIN worker : Mem_worker_start(w) /\ UNCHANGED notPipeVars
  \/ \E w \in DOMAIN worker : Mem_worker_loop(w) /\ UNCHANGED notPipeVars
  \/ \E w \in DOMAIN worker : Mem_worker_get(w) /\ UNCHANGED notPipeVars
  \/ \E w \in DOMAIN worker, r \in UploadResults : Mem_worker_upload(w, r) /\ UNCHANGED notPipeVars
  \/ \E w \in DOMAIN worker : Mem_worker_release(w) /\ UNCHANGED notPipeVars

(***************************************************************************)
(* CodingClient._make_request                                              *)
(*                                                                         *)
(* One thread calls _make_request, one call after the other.  A round trip *)
(* of session.post takes no time of the clock; the sleeps of the back-off  *)
(* and of the restore_rate threads do.                                     *)
(***************************************************************************)
RetryRates == {20, 5, 2}       \* requests_per_second the client was built with

Jitters == {5, 15}             \* random.uniform(0.5, 1.5), in tenths: its two ends

RestoreDelay == 30 * Second    \* time.sleep(30) of restore_rate

max_retries == 3               \* line 136

\* what a session.post meets: an envelope without Error, an envelope whose
\* Error is RequestLimitExceeded, an envelope with another Error, or an
\* exception of session.post / raise_for_status
ApiResponses == {"ok", "limit", "error", "exception"}

Envelope(response) ==
  CASE response = "ok" -> [has_error |-> FALSE, Code |-> "", Message |-> ""]
    [] response = "limit" ->
         [has_error |-> TRUE, Code |-> "RequestLimitExceeded", Message |-> "Too many requests"]
    [] response = "error" ->
         [has_error |-> TRUE, Code |-> "AuthFailure", Message |-> "Token invalid"]

TransportText == "503 Server Error"    \* str() of the exception of session.post

NoOutcome == [kind |-> "none"]

Returned(response) == [kind |-> "return", result |-> Envelope(response)]

\* every raise of _make_request is a requests.RequestException (lines 165,
\* 178, 189) or the one session.post raised (line 195)
Raised(text) == [kind |-> "raise", class |-> "RequestException", text |-> text]

\* lines 165 and 189
ApiErrorText(error) == "API Error: " \o error.Code \o " - " \o error.Message

MaxRetriesText == " (max retries exceeded)"

\* line 139-141: base_wait * jitter, in ms
wait_time(r, jitter) == (2 ^ r) * jitter * (Second \div 10)

\* line 148: max(5, original_rate // 2)
reduced_rate(rate) == Max(5, rate \div 2)

CurrentCall == Len(original_rate)

InitRetry ==
  /\ InitRate
  /\ requests_per_second \in RetryRates
  /\ clock = Epoch
  /\ mr_pc = "idle"
  /\ mr_due = 0
  /\ retry = 0
  /\ original_rate = <<>>
  /\ restore_times = {}
  /\ rate_limit_hits = 0
  /\ limiter_capacity = requests_per_second
  /\ mr_responses = <<>>
  /\ mr_result = NoOutcome
  /\ rate_before = 0

\* lines 149, 169, 184: self.rate_limiter = threading.Semaphore(rate)
NewSemaphore(rate) ==
  /\ requests_per_second' = rate
  /\ rate_limiter' = rate
  /\ limiter_capacity' = rate

\* line 187: a restore_rate thread of the current call is started
StartRestore == restore_times' = restore_times \cup {[due |-> clock + RestoreDelay, call |-> CurrentCall]}

\* line 121: _make_request is called and enters _rate_limit
MR_make_request ==
  /\ mr_pc = "idle"
  /\ CurrentCall < MaxRequests
  /\ Rate_rate_limit
  /\ mr_pc' = IF rl_pc' = "idle" THEN "send" ELSE "rate_limit"
  /\ original_rate' = Append(original_rate, 0)
  /\ mr_responses' = <<>>
  /\ mr_result' = NoOutcome
  /\ retry' = 0
  /\ rate_before' = 0
  /\ UNCHANGED <<mr_due, restore_times, rate_limit_hits, limiter_capacity>>

\* _rate_limit returns after its sleep
MR_rate_limit_returns ==
  /\ mr_pc = "rate_limit"
  /\ Rate_wake
  /\ mr_pc' = "send"
  /\ UNCHANGED <<mr_due, retry, original_rate, restore_times, rate_limit_hits,
                 limiter_capacity, mr_responses, mr_result, rate_before>>

\* lines 125-144 and 188-195: the first session.post and what it met, up to
\* the first time.sleep of the retry loop
MR_post(response, jitter) ==
  /\ mr_pc = "send"
  /\ mr_responses' = Append(mr_responses, response)
  /\ CASE response = "ok" ->
            /\ mr_result' = Returned(response)
            /\ mr_pc' = "idle"
            /\ UNCHANGED <<mr_due, rate_limit_hits, rate_before>>
       [] response = "exception" ->
            /\ mr_result' = Raised(TransportText)
            /\ mr_pc' = "idle"
            /\ UNCHANGED <<mr_due, rate_limit_hits, rate_before>>
       [] response = "error" ->
            /\ mr_result' = Raised(ApiErrorText(Envelope(response)))
            /\ mr_pc' = "idle"
            /\ UNCHANGED <<mr_due, rate_limit_hits, rate_before>>
       [] response = "limit" ->
            /\ rate_limit_hits' = rate_limit_hits + 1
            /\ rate_before' = requests_per_second
            /\ mr_due' = clock + wait_time(0, jitter)
            /\ mr_pc' = "sleeping"
            /\ UNCHANGED mr_result
  /\ UNCHANGED <<retry, original_rate, restore_times, limiter_capacity>>
  /\ UNCHANGED rateVars

\* lines 146-187, one turn of the retry loop after its sleep: the rate is
\* reduced, the request is sent again, and the finally block starts a
\* restore_rate thread whatever happened; then the next sleep, the return of
\* line 191 or the raise of line 178 (line 165 raises into the handler of
\* line 173, which wraps the text once more)
MR_retry(response, jitter) ==
  /\ mr_pc = "sleeping"
  /\ clock >= mr_due
  /\ original_rate' = [original_rate EXCEPT ![CurrentCall] = requests_per_second]
  /\ mr_responses' = Append(mr_responses, response)
  /\ StartRestore
  /\ IF response \in {"limit", "exception"}
     THEN /\ NewSemaphore(reduced_rate(requests_per_second))
          /\ IF retry < max_retries - 1
             THEN /\ retry' = retry + 1
                  /\ mr_due' = clock + wait_time(retry + 1, jitter)
                  /\ UNCHANGED <<mr_pc, mr_result>>
             ELSE /\ mr_result' =
                       Raised("API Error: "
                              \o (IF response = "limit"
                                  THEN ApiErrorText(Envelope(response)) \o MaxRetriesText
                                  ELSE TransportText)
                              \o MaxRetriesText)
                  /\ mr_pc' = "idle"
                  /\ UNCHANGED <<retry, mr_due>>
     ELSE \* lines 167-171: the rate of line 147 again, break, return result
          /\ NewSemaphore(requests_per_second)
          /\ mr_result' = Returned(response)
          /\ mr_pc' = "idle"
          /\ UNCHANGED <<retry, mr_due>>
  /\ UNCHANGED <<rate_limit_hits, rate_before>>
  /\ UNCHANGED <<last_request_time, request_count, clock, rl_pc, current_time,
                 wake_time, release_times, started_at, returned_at>>

\* restore_rate lines 181-185, its 30 seconds over: original_rate is the
\* variable of the enclosing call, read when the thread runs
Retry_restore_rate(t) ==
  /\ t \in restore_times
  /\ t.due <= clock
  /\ restore_times' = restore_times \ {t}
  /\ NewSemaphore(original_rate[t.call])
  /\ UNCHANGED <<mr_pc, mr_due, retry, original_rate, rate_limit_hits,
                 mr_responses, mr_result, rate_before>>
  /\ UNCHANGED <<last_request_time, request_count, clock, rl_pc, current_time,
                 wake_time, release_times, started_at, returned_at>>

\* release_semaphore of _rate_limit releases the semaphore it finds in
\* self.rate_limiter when its 50 ms are over
Retry_release_semaphore(due) ==
  /\ Rate_release_semaphore(due)
  /\ UNCHANGED retryVars

RetryEvents ==
  (IF rl_pc = "sleeping" THEN {wake_time} ELSE {})
    \cup (IF mr_pc = "sleeping" THEN {mr_due} ELSE {})
    \cup BagToSet(release_times)
    \cup {t.due : t \in restore_times}

\* time passes up to the next sleep that ends, while the caller sleeps, waits
\* for a permit or is between two calls
Retry_time_passes ==
  /\ mr_pc # "send"
  /\ RetryEvents # {}
  /\ \A t \in RetryEvents : clock < t
  /\ clock' = CHOOSE x \in RetryEvents : \A y \in RetryEvents : x <= y
  /\ UNCHANGED <<requests_per_second, rate_limiter, last_request_time, request_count,
                 rl_pc, current_time, wake_time, release_times, started_at, returned_at>>
  /\ UNCHANGED retryVars

RetryNext ==
  \/ MR_make_request /\ UNCHANGED notRetryVars
  \/ MR_rate_limit_returns /\ UNCHANGED notRetryVars
  \/ \E response \in ApiResponses, jitter \in Jitters : MR_post(response, jitter) /\ UNCHANGED notRetryVars
  \/ \E response \in ApiResponses, jitter \in Jitters : MR_retry(response, jitter) /\ UNCHANGED notRetryVars
  \/ \E t \in restore_times : Retry_restore_rate(t) /\ UNCHANGED notRetryVars
  \/ \E due \in BagToSet(release_times) : Retry_release_semaphore(due) /\ UNCHANGED notRetryVars
  \/ Retry_time_passes /\ UNCHANGED notRetryVars

\* a client whose _make_request was never called
RetryIdle ==
  /\ mr_pc = "idle"
  /\ mr_due = 0
  /\ retry = 0
  /\ original_rate = <<>>
  /\ restore_times = {}
  /\ rate_limit_hits = 0
  /\ limiter_capacity = requests_per_second
  /\ mr_responses = <<>>
  /\ mr_result = NoOutcome
  /\ rate_before = 0

(***************************************************************************)
(* NexusUploader.upload_file and its three callers                         *)
(***************************************************************************)
\* file paths of artifacts (MavenArtifact.file_path, and the paths below the
\* download directory): the last one has fewer than four parts
PutFilePaths ==
  {"g/a/1/a.jar", "g/a/1/a.pom", "g/a/1/a.war", "g/a/1/a.xyz", "g/a/1/A.JAR",
   "g/a/1/a.tar.gz", "g/a/1/README", "a.jar"}

DownloadDir == "./target"          \* the directory handed to upload_directory

DiskTempDir == "/tmp/pipeline_k3"  \* PipelineMigrator.temp_dir

MemTempDir == "/tmp/tmpq7"         \* the temp_dir of the memory upload worker

\* values of hash(artifact.file_path), which differ from process to process
HashValues == {"-4071", "88213"}

\* PurePath.name: the final component
PathName(path) == LET parts == Split(path, "/") IN parts[Len(parts)]

\* PurePath.suffix: the name from its last dot on, empty when the name has no
\* dot or only a leading or a trailing one
suffix(path) ==
  LET name == PathName(path)
      dots == {i \in 1..Len(name) : CharAt(name, i) = "."}
  IN IF dots = {} THEN ""
     ELSE LET i == CHOOSE k \in dots : \A j \in dots : j <= k
          IN IF 1 < i /\ i < Len(name) THEN SubSeq(name, i, Len(name)) ELSE ""

\* content_type_map of _get_content_type
content_type_map ==
  (".jar" :> "application/java-archive") @@ (".pom" :> "text/xml")
  @@ (".xml" :> "text/xml") @@ (".war" :> "application/java-archive")
  @@ (".ear" :> "application/java-archive") @@ (".zip" :> "application/zip")
  @@ (".tar" :> "application/x-tar") @@ (".gz" :> "application/gzip")
  @@ (".txt" :> "text/plain") @@ (".md5" :> "text/plain")
  @@ (".sha1" :> "text/plain") @@ (".asc" :> "text/plain")
  @@ (".json" :> "application/json") @@ (".properties" :> "text/plain")
  @@ (".yml" :> "text/yaml") @@ (".yaml" :> "text/yaml")

\* _get_content_type(file_extension)
get_content_type(file_extension) ==
  LET extension == Lower(file_extension)
  IN IF extension \in DOMAIN content_type_map
     THEN content_type_map[extension]
     ELSE "application/octet-stream"

\* _convert_to_maven_path of both pipeline migrators
convert_to_maven_path(file_path) ==
  IF Len(Split(file_path, "/")) >= 4 THEN put_path(file_path) ELSE file_path

\* the local file each caller hands to upload_file
DirectoryLocal(file_path) == DownloadDir \o "/" \o file_path

DiskLocal(file_path) == DiskTempDir \o "/" \o PathName(file_path)

MemoryLocal(file_path, h) == MemTempDir \o "/upload_" \o h \o ".tmp"

LocalFiles ==
  {DirectoryLocal(f) : f \in PutFilePaths} \cup {DiskLocal(f) : f \in PutFilePaths}
    \cup {MemoryLocal(f, h) : f \in PutFilePaths, h \in HashValues}

MavenPaths == PutFilePaths \cup {convert_to_maven_path(f) : f \in PutFilePaths}

\* the header upload_file computes from the local file (line 236)
HeaderOf == [local \in LocalFiles |-> get_content_type(suffix(local))]

PutPathOf == [maven_path \in MavenPaths |-> put_path(maven_path)]

InitPut == put_log = <<>>

\* upload_file(file_path, maven_path): one PUT with the Content-Type of the
\* local file's suffix; a path of fewer than four parts raises ValueError
\* inside the try and nothing is sent
upload_file(via, file_path, maven_path) ==
  IF PutPathOf[maven_path] = Absent
  THEN UNCHANGED put_log
  ELSE put_log' = Append(put_log,
         [via |-> via, file_path |-> file_path, path |-> PutPathOf[maven_path],
          content_type |-> HeaderOf[file_path]])

\* upload_directory / _upload_batch for one file below the directory
Put_upload_batch(f, exists) ==
  /\ Len(put_log) < MaxPuts
  /\ IF exists THEN UNCHANGED put_log
     ELSE upload_file("directory", DirectoryLocal(f), f)

\* PipelineMigrator._upload_worker for one downloaded task
Put_disk_upload_worker(f) ==
  /\ Len(put_log) < MaxPuts
  /\ upload_file("disk", DiskLocal(f), convert_to_maven_path(f))

\* MemoryPipelineMigrator._upload_worker for one task with file_data
Put_memory_upload_worker(f, h) ==
  /\ Len(put_log) < MaxPuts
  /\ upload_file("memory", MemoryLocal(f, h), convert_to_maven_path(f))

PutNext ==
  \/ \E f \in PutFilePaths, exists \in BOOLEAN : Put_upload_batch(f, exists) /\ UNCHANGED notPutVars
  \/ \E f \in PutFilePaths : Put_disk_upload_worker(f) /\ UNCHANGED notPutVars
  \/ \E f \in PutFilePaths, h \in HashValues : Put_memory_upload_worker(f, h) /\ UNCHANGED notPutVars

PutIdle == put_log = <<>>

(***************************************************************************)
(* MavenMigrator.migrate_project_pipeline / migrate_project_memory_pipeline *)
(***************************************************************************)
ProjectDemo == [id |-> 101, name |-> "demo"]

ProjectTools == [id |-> 102, name |-> "tools"]

\* what DescribeCodingProjects lists for the team
ProjectLists == {<<>>, <<ProjectDemo>>, <<ProjectDemo, ProjectTools>>}

CodingServices ==
  {[reachable |-> FALSE, projects |-> <<>>]}
    \cup {[reachable |-> TRUE, projects |-> l] : l \in ProjectLists}

\* the destination answers 200, answers another status, or does not answer
NexusServices == {"ok", "status_503", "unreachable"}

EntryPoints == {"migrate_project_pipeline", "migrate_project_memory_pipeline"}

EntryProjectNames == {"demo", "tools", "ghost"}

NoEntryCall == [entry |-> "none", project_name |-> ""]

NoEntryResult == [outcome |-> "none", class |-> "", value |-> 0]

Asks(op, arg) == [op |-> op, arg |-> arg]

\* `raise ConnectionError(...)` of lines 371 and 405: migrator.py imports no
\* name ConnectionError, so this is the built-in class
ConnectionFailure ==
  [outcome |-> "raised", class |-> "builtins.ConnectionError", value |-> 0]

ProjectNotFound == [outcome |-> "raised", class |-> "builtins.ValueError", value |-> 0]

\* the migrator each entry point constructs
MigratorOf(entry) ==
  IF entry = "migrate_project_pipeline" THEN "PipelineMigrator"
  ELSE "MemoryPipelineMigrator"

\* get_all_projects: the list, or an exception of _make_request
GetAllProjectsRaises == ~coding_service.reachable

\* NexusUploader.test_connection
test_connection == nexus_service = "ok"

\* the scan of _get_project_by_name lines 472-478: the first project of that
\* name, 0 when there is none
RECURSIVE ProjectByName(_, _, _)
ProjectByName(projects, i, project_name) ==
  IF i > Len(projects) THEN 0
  ELSE IF projects[i].name = project_name THEN projects[i].id
  ELSE ProjectByName(projects, i + 1, project_name)

InitEntry ==
  /\ coding_service \in CodingServices
  /\ nexus_service \in NexusServices
  /\ has_clients = FALSE
  /\ en_pc = "idle"
  /\ en_call = NoEntryCall
  /\ en_count = 0
  /\ en_log = <<>>
  /\ en_result = NoEntryResult

\* entry of either function with a configuration (lines 364-367, 398-401)
Entry_call(entry, project_name) ==
  /\ en_pc = "idle"
  /\ en_count < MaxEntries
  /\ en_count' = en_count + 1
  /\ en_call' = [entry |-> entry, project_name |-> project_name]
  /\ en_log' = <<>>
  /\ en_result' = NoEntryResult
  /\ en_pc' = "test_coding"
  /\ UNCHANGED <<coding_service, nexus_service, has_clients>>

\* _test_connections lines 425-443: the clients are built when missing, the
\* project list is fetched; an exception or an empty list ends the test with
\* False and the entry point raises
Entry_test_coding ==
  /\ en_pc = "test_coding"
  /\ has_clients' = TRUE
  /\ en_log' = Append(en_log, Asks("get_all_projects", 0))
  /\ IF GetAllProjectsRaises \/ coding_service.projects = <<>>
     THEN /\ en_result' = ConnectionFailure
          /\ en_pc' = "idle"
     ELSE /\ en_pc' = "test_nexus"
          /\ UNCHANGED en_result
  /\ UNCHANGED <<coding_service, nexus_service, en_call, en_count>>

\* _test_connections lines 445-452
Entry_test_nexus ==
  /\ en_pc = "test_nexus"
  /\ en_log' = Append(en_log, Asks("test_connection", 0))
  /\ IF test_connection
     THEN /\ en_pc' = "resolve"
          /\ UNCHANGED en_result
     ELSE /\ en_result' = ConnectionFailure
          /\ en_pc' = "idle"
  /\ UNCHANGED <<coding_service, nexus_service, has_clients, en_call, en_count>>

\* _get_project_by_name and the test of its result (lines 374-378, 408-412)
Entry_resolve ==
  /\ en_pc = "resolve"
  /\ en_log' = Append(en_log, Asks("get_all_projects", 0))
  /\ IF GetAllProjectsRaises
        \/ ProjectByName(coding_service.projects, 1, en_call.project_name) = 0
     THEN /\ en_result' = ProjectNotFound
          /\ en_pc' = "idle"
     ELSE /\ en_pc' = "delegate"
          /\ UNCHANGED en_result
  /\ UNCHANGED <<coding_service, nexus_service, has_clients, en_call, en_count>>

\* the migrator is constructed and its migrate_project called with the id
\* and the name (lines 380-386, 414-420)
Entry_delegate ==
  /\ en_pc = "delegate"
  /\ LET project_id == ProjectByName(coding_service.projects, 1, en_call.project_name)
     IN /\ en_log' = Append(en_log, Asks(MigratorOf(en_call.entry), project_id))
        /\ en_result' = [outcome |-> "returned", class |-> "stats", value |-> project_id]
  /\ en_pc' = "idle"
  /\ UNCHANGED <<coding_service, nexus_service, has_clients, en_call, en_count>>

EntryNext ==
  \/ \E e \in EntryPoints, n \in EntryProjectNames : Entry_call(e, n) /\ UNCHANGED notEntryVars
  \/ Entry_test_coding /\ UNCHANGED notEntryVars
  \/ Entry_test_nexus /\ UNCHANGED notEntryVars
  \/ Entry_resolve /\ UNCHANGED notEntryVars
  \/ Entry_delegate /\ UNCHANGED notEntryVars

EntryIdle ==
  /\ coding_service = [reachable |-> FALSE, projects |-> <<>>]
  /\ nexus_service = "unreachable"
  /\ has_clients = FALSE
  /\ en_pc = "idle"
  /\ en_call = NoEntryCall
  /\ en_count = 0
  /\ en_log = <<>>
  /\ en_result = NoEntryResult

(***************************************************************************)
(* CodingClient._rate_limit called by concurrent threads while the         *)
(* semaphore is replaced                                                   *)
(*                                                                         *)
(* Only the order of the steps is kept here; the clock of SpecRate and     *)
(* SpecRetry is left out.                                                  *)
(***************************************************************************)
SemThreads == 1..MaxCallers

SemRates == {1, 2}             \* requests_per_second the client was built with

NotCalled == [pc |-> "out", sem |-> 0]

\* self.rate_limiter: the Semaphore assigned last
CurrentSemaphore == Len(semaphores)

InitSem ==
  /\ sem_rate \in SemRates
  /\ semaphores = <<sem_rate>>
  /\ sem_caller = [t \in SemThreads |-> NotCalled]
  /\ late_releases = 0
  /\ rates_seen = {sem_rate}
  /\ rebuilds = 0

\* line 74: self.rate_limiter.acquire() is called: the attribute is read and
\* the thread waits on that object
Sem_call(t) ==
  /\ sem_caller[t].pc = "out"
  /\ sem_caller' = [sem_caller EXCEPT ![t] = [pc |-> "blocked", sem |-> CurrentSemaphore]]
  /\ UNCHANGED <<sem_rate, semaphores, late_releases, rates_seen, rebuilds>>

\* acquire() returns with a permit of the object it was called on
Sem_acquire(t) ==
  /\ sem_caller[t].pc = "blocked"
  /\ semaphores[sem_caller[t].sem] > 0
  /\ semaphores' = [semaphores EXCEPT ![sem_caller[t].sem] = @ - 1]
  /\ sem_caller' = [sem_caller EXCEPT ![t].pc = "acquired"]
  /\ UNCHANGED <<sem_rate, late_releases, rates_seen, rebuilds>>

\* lines 76-103: the statistics, the sleep, and the release thread started
Sem_return(t) ==
  /\ sem_caller[t].pc = "acquired"
  /\ sem_caller' = [sem_caller EXCEPT ![t].pc = "returned"]
  /\ late_releases' = late_releases + 1
  /\ UNCHANGED <<sem_rate, semaphores, rates_seen, rebuilds>>

\* release_semaphore lines 99-101: self.rate_limiter.release() on the
\* semaphore that is current when the 50 ms are over
Sem_release_semaphore ==
  /\ late_releases > 0
  /\ late_releases' = late_releases - 1
  /\ semaphores' = [semaphores EXCEPT ![CurrentSemaphore] = @ + 1]
  /\ UNCHANGED <<sem_rate, sem_caller, rates_seen, rebuilds>>

\* a request that went out came back rate limited
RequestWentOut == \E t \in SemThreads : sem_caller[t].pc = "returned"

\* lines 147-149: the retry loop reduces the rate and assigns a new Semaphore
Sem_reduce ==
  /\ RequestWentOut
  /\ rebuilds < MaxRebuilds
  /\ rebuilds' = rebuilds + 1
  /\ rates_seen' = rates_seen \cup {sem_rate}
  /\ sem_rate' = reduced_rate(sem_rate)
  /\ semaphores' = Append(semaphores, reduced_rate(sem_rate))
  /\ UNCHANGED <<sem_caller, late_releases>>

\* lines 168-169 and restore_rate lines 183-184: an original_rate is put
\* back and a new Semaphore assigned
Sem_restore(rate) ==
  /\ rebuilds >= 1
  /\ rebuilds < MaxRebuilds
  /\ rate \in rates_seen
  /\ rebuilds' = rebuilds + 1
  /\ sem_rate' = rate
  /\ semaphores' = Append(semaphores, rate)
  /\ UNCHANGED <<sem_caller, late_releases, rates_seen>>

SemNext ==
  \/ \E t \in SemThreads : Sem_call(t) /\ UNCHANGED notSemVars
  \/ \E t \in SemThreads : Sem_acquire(t) /\ UNCHANGED notSemVars
  \/ \E t \in SemThreads : Sem_return(t) /\ UNCHANGED notSemVars
  \/ Sem_release_semaphore /\ UNCHANGED notSemVars
  \/ Sem_reduce /\ UNCHANGED notSemVars
  \/ \E rate \in rates_seen : Sem_restore(rate) /\ UNCHANGED notSemVars

\* a thread that holds a permit goes on, a release thread wakes after its
\* 50 ms, and acquire() returns once its semaphore has a permit
SemFairness ==
  /\ \A t \in SemThreads : WF_vars(Sem_acquire(t) /\ UNCHANGED notSemVars)
  /\ \A t \in SemThreads : WF_vars(Sem_return(t) /\ UNCHANGED notSemVars)
  /\ WF_vars(Sem_release_semaphore /\ UNCHANGED notSemVars)

SemIdle ==
  /\ sem_rate = 1
  /\ semaphores = <<>>
  /\ sem_caller = <<>>
  /\ late_releases = 0
  /\ rates_seen = {}
  /\ rebuilds = 0

(***************************************************************************)
(* PipelineMigrator over a listing longer than its queue: the tasks are    *)
(* counted, not told apart; every file has a name of its own               *)
(***************************************************************************)
LongListings == {1, DiskQueueMaxSize + OverQueue}

LongMaxWorkers == {1, 2}

LongZeroStats ==
  [total_artifacts |-> 0, downloaded |-> 0, uploaded |-> 0,
   download_failed |-> 0, upload_failed |-> 0]

\* lines 45-76: a PipelineMigrator constructed and not yet run
InitLong ==
  /\ long_max_workers \in LongMaxWorkers
  /\ long_listing \in LongListings
  /\ long_source_serves \in BOOLEAN
  /\ long_nexus_accepts \in BOOLEAN
  /\ long_pc = "constructed"
  /\ long_stats = LongZeroStats
  /\ long_submitted = 0
  /\ long_downloading = 0
  /\ long_putting = 0
  /\ long_upload_queue = 0
  /\ long_worker = "none"
  /\ long_failed_tasks = 0
  /\ long_stop_event = FALSE

\* threads of the pool that run a work item
LongBusyThreads ==
  long_downloading + long_putting
    + (IF long_worker \in {"none", "submitted", "stopped"} THEN 0 ELSE 1)

LongPoolSize == DownloadWorkers(long_max_workers) + UploadWorkers(long_max_workers)

\* lines 91-121: list the artifacts, submit the upload workers and the downloads
Long_migrate_project ==
  /\ long_pc = "constructed"
  /\ long_stats' = [long_stats EXCEPT !.total_artifacts = long_listing]
  /\ long_submitted' = long_listing
  /\ long_worker' = IF UploadWorkers(long_max_workers) >= 1 THEN "submitted" ELSE "none"
  /\ long_pc' = "await_downloads"
  /\ UNCHANGED <<long_max_workers, long_listing, long_source_serves,
                 long_nexus_accepts, long_downloading, long_putting,
                 long_upload_queue, long_failed_tasks, long_stop_event>>

\* a pool thread picks the upload worker up, the first item submitted
Long_worker_start ==
  /\ long_worker = "submitted"
  /\ LongBusyThreads < LongPoolSize
  /\ long_worker' = "loop"
  /\ UNCHANGED <<long_max_workers, long_listing, long_source_serves,
                 long_nexus_accepts, long_pc, long_stats, long_submitted,
                 long_downloading, long_putting, long_upload_queue,
                 long_failed_tasks, long_stop_event>>

\* lines 202-211: a pool thread starts the next download: the stop check
Long_download_start ==
  /\ long_pc = "await_downloads"
  /\ long_submitted > 0
  /\ long_worker # "submitted"
  /\ LongBusyThreads < LongPoolSize
  /\ long_submitted' = long_submitted - 1
  /\ long_downloading' = IF long_stop_event THEN long_downloading
                         ELSE long_downloading + 1
  /\ UNCHANGED <<long_max_workers, long_listing, long_source_serves,
                 long_nexus_accepts, long_pc, long_stats, long_putting,
                 long_upload_queue, long_worker, long_failed_tasks,
                 long_stop_event>>

\* lines 213-224 and 231-240: download_artifact and the count of its outcome
Long_download_artifact ==
  /\ long_downloading > 0
  /\ long_downloading' = long_downloading - 1
  /\ IF long_source_serves
     THEN /\ long_stats' = Bump(long_stats, "downloaded")
          /\ long_putting' = long_putting + 1
          /\ UNCHANGED long_failed_tasks
     ELSE /\ long_stats' = Bump(long_stats, "download_failed")
          /\ long_failed_tasks' = long_failed_tasks + 1
          /\ UNCHANGED long_putting
  /\ UNCHANGED <<long_max_workers, long_listing, long_source_serves,
                 long_nexus_accepts, long_pc, long_submitted,
                 long_upload_queue, long_worker, long_stop_event>>

\* lines 226-227 and 236-240: upload_queue.put(task, timeout=30); queue.Full
\* after the 30 s lands in the except branch of the download
Long_download_put ==
  /\ long_putting > 0
  /\ long_putting' = long_putting - 1
  /\ IF long_upload_queue < DiskQueueMaxSize
     THEN /\ long_upload_queue' = long_upload_queue + 1
          /\ UNCHANGED <<long_stats, long_failed_tasks>>
     ELSE /\ long_stats' = Bump(long_stats, "download_failed")
          /\ long_failed_tasks' = long_failed_tasks + 1
          /\ UNCHANGED long_upload_queue
  /\ UNCHANGED <<long_max_workers, long_listing, long_source_serves,
                 long_nexus_accepts, long_pc, long_submitted, long_downloading,
                 long_worker, long_stop_event>>

\* lines 123-128: as_completed over the download futures
Long_await_downloads ==
  /\ long_pc = "await_downloads"
  /\ long_submitted = 0 /\ long_downloading = 0 /\ long_putting = 0
  /\ long_pc' = "drain"
  /\ UNCHANGED <<long_max_workers, long_listing, long_source_serves,
                 long_nexus_accepts, long_stats, long_submitted,
                 long_downloading, long_putting, long_upload_queue,
                 long_worker, long_failed_tasks, long_stop_event>>

\* lines 132-136: poll until the queue is empty, then stop_event.set()
Long_drain_and_stop ==
  /\ long_pc = "drain"
  /\ long_upload_queue = 0
  /\ long_stop_event' = TRUE
  /\ long_pc' = "join"
  /\ UNCHANGED <<long_max_workers, long_listing, long_source_serves,
                 long_nexus_accepts, long_stats, long_submitted,
                 long_downloading, long_putting, long_upload_queue,
                 long_worker, long_failed_tasks>>

\* lines 138-154: join the upload workers and return the stats
Long_join_and_return ==
  /\ long_pc = "join"
  /\ long_worker \in {"none", "stopped"}
  /\ long_pc' = "returned"
  /\ UNCHANGED <<long_max_workers, long_listing, long_source_serves,
                 long_nexus_accepts, long_stats, long_submitted,
                 long_downloading, long_putting, long_upload_queue,
                 long_worker, long_failed_tasks, long_stop_event>>

\* line 254: while not self.stop_event.is_set()
Long_worker_loop ==
  /\ long_worker = "loop"
  /\ long_worker' = IF long_stop_event THEN "stopped" ELSE "get"
  /\ UNCHANGED <<long_max_workers, long_listing, long_source_serves,
                 long_nexus_accepts, long_pc, long_stats, long_submitted,
                 long_downloading, long_putting, long_upload_queue,
                 long_failed_tasks, long_stop_event>>

\* lines 257 and 293-295: upload_queue.get(timeout=1.0)
Long_worker_get ==
  /\ long_worker = "get"
  /\ IF long_upload_queue > 0
     THEN /\ long_worker' = "upload"
          /\ long_upload_queue' = long_upload_queue - 1
     ELSE /\ long_worker' = "loop"
          /\ UNCHANGED long_upload_queue
  /\ UNCHANGED <<long_max_workers, long_listing, long_source_serves,
                 long_nexus_accepts, long_pc, long_stats, long_submitted,
                 long_downloading, long_putting, long_failed_tasks,
                 long_stop_event>>

\* lines 259-291: upload_file, the count of its answer, the finally block
Long_worker_upload ==
  /\ long_worker = "upload"
  /\ IF long_nexus_accepts
     THEN /\ long_stats' = Bump(long_stats, "uploaded")
          /\ UNCHANGED long_failed_tasks
     ELSE /\ long_stats' = Bump(long_stats, "upload_failed")
          /\ long_failed_tasks' = long_failed_tasks + 1
  /\ long_worker' = "loop"
  /\ UNCHANGED <<long_max_workers, long_listing, long_source_serves,
                 long_nexus_accepts, long_pc, long_submitted, long_downloading,
                 long_putting, long_upload_queue, long_stop_event>>

LongNext ==
  \/ Long_migrate_project /\ UNCHANGED notLongVars
  \/ Long_worker_start /\ UNCHANGED notLongVars
  \/ Long_download_start /\ UNCHANGED notLongVars
  \/ Long_download_artifact /\ UNCHANGED notLongVars
  \/ Long_download_put /\ UNCHANGED notLongVars
  \/ Long_await_downloads /\ UNCHANGED notLongVars
  \/ Long_drain_and_stop /\ UNCHANGED notLongVars
  \/ Long_join_and_return /\ UNCHANGED notLongVars
  \/ Long_worker_loop /\ UNCHANGED notLongVars
  \/ Long_worker_get /\ UNCHANGED notLongVars
  \/ Long_worker_upload /\ UNCHANGED notLongVars

LongIdle ==
  /\ long_max_workers = 1
  /\ long_listing = 0
  /\ long_source_serves = TRUE
  /\ long_nexus_accepts = TRUE
  /\ long_pc = "unused"
  /\ long_stats = LongZeroStats
  /\ long_submitted = 0
  /\ long_downloading = 0
  /\ long_putting = 0
  /\ long_upload_queue = 0
  /\ long_worker = "none"
  /\ long_failed_tasks = 0
  /\ long_stop_event = FALSE

(***************************************************************************)
(* utils.retry: the wrapper the decorator puts around a function           *)
(***************************************************************************)
WrapDelays == {1, 2}

WrapBackoffs == {1, 2, 3}

ExceptionClasses == {"ConnectionError", "Timeout", "ValueError"}

\* the tuples given as exceptions=
WrapExceptionTuples == {{"ConnectionError", "Timeout"}, {"ConnectionError"}}

\* what a call of func can do
FuncOutcomes ==
  {[kind |-> "return", value |-> v] : v \in {"a", "b"}}
    \cup {[kind |-> "raise", value |-> e] : e \in ExceptionClasses}

NotEnded == [kind |-> "none", value |-> ""]

\* the value of a function that runs off its end
ReturnsNone == [kind |-> "return", value |-> "None"]

\* lines 31-32: wrapper is called
InitWrap ==
  /\ wrap_max_attempts \in 0..MaxAttempts
  /\ wrap_delay \in WrapDelays
  /\ wrap_backoff \in WrapBackoffs
  /\ wrap_exceptions \in WrapExceptionTuples
  /\ wrap_pc = "while"
  /\ attempts = 0
  /\ current_delay = wrap_delay
  /\ func_calls = <<>>
  /\ sleeps = <<>>
  /\ wrap_result = NotEnded

\* a delay that grows by the factor as a sum
next_delay_added(d, factor) == d + factor

\* line 45: current_delay *= backoff
next_delay(d, factor) == d * factor

\* lines 34-45: one pass of the while loop with its call of func
Wrap_attempt(outcome) ==
  /\ wrap_pc = "while"
  /\ attempts < wrap_max_attempts
  /\ func_calls' = Append(func_calls, outcome)
  /\ IF outcome.kind = "return"
     THEN \* line 36
          /\ wrap_result' = outcome
          /\ wrap_pc' = "returned"
          /\ UNCHANGED <<attempts, current_delay, sleeps>>
     ELSE IF outcome.value \notin wrap_exceptions
     THEN \* no except clause takes it
          /\ wrap_result' = outcome
          /\ wrap_pc' = "raised"
          /\ UNCHANGED <<attempts, current_delay, sleeps>>
     ELSE /\ attempts' = attempts + 1
          /\ IF attempts' >= wrap_max_attempts
             THEN \* lines 39-41
                  /\ wrap_result' = outcome
                  /\ wrap_pc' = "raised"
                  /\ UNCHANGED <<current_delay, sleeps>>
             ELSE \* lines 43-45
                  /\ sleeps' = Append(sleeps, current_delay)
                  /\ current_delay' = next_delay(current_delay, wrap_backoff)
                  /\ UNCHANGED <<wrap_result, wrap_pc>>
  /\ UNCHANGED <<wrap_max_attempts, wrap_delay, wrap_backoff, wrap_exceptions>>

\* line 34 false at the first test: the loop is left and wrapper ends
Wrap_loop_exit ==
  /\ wrap_pc = "while"
  /\ ~(attempts < wrap_max_attempts)
  /\ wrap_result' = ReturnsNone
  /\ wrap_pc' = "returned"
  /\ UNCHANGED <<wrap_max_attempts, wrap_delay, wrap_backoff, wrap_exceptions,
                 attempts, current_delay, func_calls, sleeps>>

WrapNext ==
  \/ \E outcome \in FuncOutcomes : Wrap_attempt(outcome) /\ UNCHANGED notWrapVars
  \/ Wrap_loop_exit /\ UNCHANGED notWrapVars

WrapIdle ==
  /\ wrap_max_attempts = 0
  /\ wrap_delay = 1
  /\ wrap_backoff = 1
  /\ wrap_exceptions = {}
  /\ wrap_pc = "unused"
  /\ attempts = 0
  /\ current_delay = 0
  /\ func_calls = <<>>
  /\ sleeps = <<>>
  /\ wrap_result = NotEnded

(***************************************************************************)
(* Specifications                                                          *)
(***************************************************************************)
Init == InitPipe /\ RouteIdle /\ RateIdle /\ PageIdle /\ StdIdle /\ StopIdle /\ LedgerIdle /\ RetryIdle /\ PutIdle /\ EntryIdle /\ SemIdle /\ LongIdle /\ WrapIdle

Next == MemNext \/ DiskNext \/ (NewProcess /\ UNCHANGED notPipeVars)

Spec == Init /\ [][Next]_vars

InitR == PipeIdle /\ InitRoute /\ RateIdle /\ PageIdle /\ StdIdle /\ StopIdle /\ LedgerIdle /\ RetryIdle /\ PutIdle /\ EntryIdle /\ SemIdle /\ LongIdle /\ WrapIdle

NextR == RouteNext

SpecRoute == InitR /\ [][NextR]_vars

InitL == PipeIdle /\ RouteIdle /\ InitRate /\ PageIdle /\ StdIdle /\ StopIdle /\ LedgerIdle /\ RetryIdle /\ PutIdle /\ EntryIdle /\ SemIdle /\ LongIdle /\ WrapIdle

NextL == RateNext

SpecRate == InitL /\ [][NextL]_vars

InitP == PipeIdle /\ RouteIdle /\ RateIdle /\ InitPage /\ StdIdle /\ StopIdle /\ LedgerIdle /\ RetryIdle /\ PutIdle /\ EntryIdle /\ SemIdle /\ LongIdle /\ WrapIdle

NextP == PageNext

SpecPage == InitP /\ [][NextP]_vars

InitS == PipeIdle /\ RouteIdle /\ RateIdle /\ PageIdle /\ InitStd /\ StopIdle /\ LedgerIdle /\ RetryIdle /\ PutIdle /\ EntryIdle /\ SemIdle /\ LongIdle /\ WrapIdle

NextS == StdNext

SpecStd == InitS /\ [][NextS]_vars

InitK == PipeIdle /\ RouteIdle /\ RateIdle /\ PageIdle /\ StdIdle /\ InitStop /\ LedgerIdle /\ RetryIdle /\ PutIdle /\ EntryIdle /\ SemIdle /\ LongIdle /\ WrapIdle

NextK == StopNext

SpecStop == InitK /\ [][NextK]_vars

InitG == PipeIdle /\ RouteIdle /\ RateIdle /\ PageIdle /\ StdIdle /\ StopIdle /\ InitLedger /\ RetryIdle /\ PutIdle /\ EntryIdle /\ SemIdle /\ LongIdle /\ WrapIdle

NextG == LedgerNext

SpecLedger == InitG /\ [][NextG]_vars

InitM == PipeIdle /\ RouteIdle /\ PageIdle /\ StdIdle /\ StopIdle /\ LedgerIdle /\ InitRetry /\ PutIdle /\ EntryIdle /\ SemIdle /\ LongIdle /\ WrapIdle

NextM == RetryNext

SpecRetry == InitM /\ [][NextM]_vars

InitD == InitDisk /\ RouteIdle /\ RateIdle /\ PageIdle /\ StdIdle /\ StopIdle /\ LedgerIdle /\ RetryIdle /\ PutIdle /\ EntryIdle /\ SemIdle /\ LongIdle /\ WrapIdle

NextD == DiskNext

SpecDisk == InitD /\ [][NextD]_vars

SpecDiskFair == SpecDisk /\ DiskFairness

InitU == InitReuse /\ RouteIdle /\ RateIdle /\ PageIdle /\ StdIdle /\ StopIdle /\ LedgerIdle /\ RetryIdle /\ PutIdle /\ EntryIdle /\ SemIdle /\ LongIdle /\ WrapIdle

NextU == ReuseNext

SpecReuse == InitU /\ [][NextU]_vars

InitC == PipeIdle /\ RouteIdle /\ RateIdle /\ PageIdle /\ StdIdle /\ StopIdle /\ LedgerIdle /\ RetryIdle /\ InitPut /\ EntryIdle /\ SemIdle /\ LongIdle /\ WrapIdle

NextC == PutNext

SpecPut == InitC /\ [][NextC]_vars

InitE == PipeIdle /\ RouteIdle /\ RateIdle /\ PageIdle /\ StdIdle /\ StopIdle /\ LedgerIdle /\ RetryIdle /\ PutIdle /\ InitEntry /\ SemIdle /\ LongIdle /\ WrapIdle

NextE == EntryNext

SpecEntry == InitE /\ [][NextE]_vars

InitA == PipeIdle /\ RouteIdle /\ RateIdle /\ PageIdle /\ StdIdle /\ StopIdle /\ LedgerIdle /\ RetryIdle /\ PutIdle /\ EntryIdle /\ InitSem /\ LongIdle /\ WrapIdle

NextA == SemNext

SpecSem == InitA /\ [][NextA]_vars

SpecSemFair == SpecSem /\ SemFairness

InitQ == PipeIdle /\ RouteIdle /\ RateIdle /\ PageIdle /\ StdIdle /\ StopIdle /\ LedgerIdle /\ RetryIdle /\ PutIdle /\ EntryIdle /\ SemIdle /\ InitLong /\ WrapIdle

NextQ == LongNext

SpecLong == InitQ /\ [][NextQ]_vars

InitW == PipeIdle /\ RouteIdle /\ RateIdle /\ PageIdle /\ StdIdle /\ StopIdle /\ LedgerIdle /\ RetryIdle /\ PutIdle /\ EntryIdle /\ SemIdle /\ LongIdle /\ InitWrap

NextW == WrapNext

SpecWrap == InitW /\ [][NextW]_vars

\* the pipeline migrators and the standard migration side by side: a
\* behaviour is a behaviour of one of them
InitT == Init \/ InitS

NextT == Next \/ NextS

SpecTransfers == InitT /\ [][NextT]_vars

(***************************************************************************)
(* Claims about the pipeline migrators (specification Spec)                *)
(***************************************************************************)
Asked(r, o, a) == \E q \in requests : q.run = r /\ q.op = o /\ q.artifact = a

UploadedIn(r, a) == [run |-> r, op |-> "upload", artifact |-> a, ok |-> TRUE] \in requests

UploadedBefore(r, all) == {i \in DOMAIN all : UploadedIn(r, all[i])}

\* run r has returned and its listing of the project found the artifacts all
Rediscovered(r, all) ==
  Len(returned) >= r /\ returned[r].total_artifacts = Len(all)

C2QueueHoldsDownloadedTasks ==
  \A k \in DOMAIN upload_queue :
    LET t == task[upload_queue[k]]
    IN /\ t.download_success
       /\ t.error_message = ""
       /\ kind = "memory" => t.file_data > 0
       /\ kind = "disk" => t.temp_file_path # ""

C2Witness ==
  /\ upload_queue # <<>>
  /\ failed_tasks # <<>>
  /\ \E id \in Range(failed_tasks) : ~task[id].download_success

\* a task an upload worker has taken and finished with, whatever the outcome
FinishedByWorker(id) ==
  /\ \/ task[id].upload_success
     \/ task[id].error_message \in {"Upload failed", "raised"}
  /\ \A w \in DOMAIN worker :
       ~(worker[w].task = id /\ worker[w].pc \in {"upload", "release"})

\* a task whose payload size was added to the counter and that no upload
\* worker has finished with
InFlight(id) ==
  /\ id[1] = run
  /\ id[2] \in DOMAIN dl_pc
  /\ dl_pc[id[2]] \in {"put", "done"}
  /\ task[id].download_success
  /\ ~FinishedByWorker(id)

InFlightBytes ==
  SumOver({id \in DOMAIN task : InFlight(id)}, [id \in DOMAIN task |-> task[id].file_data])

\* C3: memory pipeline.  current_memory_usage is the sum of the payload sizes
\* of the tasks added to it that no upload worker has finished with: once a
\* worker is done with a task (upload succeeded, failed or raised) the
\* counter is lower by that task's size, and with nothing else in flight it
\* is back to its value before the download.
C3MemoryReleasedAfterUpload ==
  kind = "memory" => current_memory_usage = InFlightBytes

C3Witness ==
  /\ kind = "memory"
  /\ current_memory_usage = 0
  /\ \E id \in DOMAIN task : FinishedByWorker(id) /\ task[id].upload_success
  /\ \E id \in DOMAIN task : FinishedByWorker(id) /\ task[id].error_message = "raised"

\* C4: memory pipeline backpressure.  A download task does not start its
\* download while current_memory_usage exceeds half of max_memory_usage,
\* unless it has waited the full 300 polls.
C4NoDownloadAboveHalf ==
  [][\A i \in DOMAIN dl_pc :
       (/\ kind = "memory"
        /\ dl_pc[i] \in {"check_memory", "waiting"}
        /\ i \in DOMAIN dl_pc'
        /\ dl_pc'[i] = "download")
       => \/ ~MemoryAboveHalf(current_memory_usage)
          \/ wait_count'[i] >= max_wait_time]_vars

\* C5: memory pipeline.  With every payload smaller than the cap,
\* current_memory_usage never exceeds max_memory_usage.
C5UsageWithinCap ==
  (/\ kind = "memory"
   /\ \A id \in DOMAIN task : task[id].file_data < max_memory_usage)
  => current_memory_usage <= max_memory_usage

(***************************************************************************)
(* Claims about repository routing (specification SpecRoute)               *)
(***************************************************************************)
EndsInSnapshot(v) == EndsWith(Lower(v), "-snapshot")

\* positions of the maven2 repositories whose lower-cased name contains word
Maven2Containing(list, word) ==
  {i \in DOMAIN list : list[i].format = "maven2" /\ Contains(Lower(list[i].name), word)}

FirstIn(list, S) == list[CHOOSE i \in S : \A j \in S : i <= j].name

\* the route the routing rule prescribes for v, given the configured names,
\* the default repository and the repositories the server declares
PrescribedRoute(v, section, list) ==
  LET default == load_config(section).nexus_repository
      first(word) == FirstIn(list, Maven2Containing(list, word))
      has(word) == Maven2Containing(list, word) # {}
  IN IF EndsInSnapshot(v)
     THEN IF section.snapshot_repo # Absent THEN section.snapshot_repo
          ELSE IF has("snapshot") THEN first("snapshot")
          ELSE IF has("snap") THEN first("snap")
          ELSE default
     ELSE IF section.release_repo # Absent THEN section.release_repo
          ELSE IF has("release") THEN first("release")
          ELSE IF has("hosted") THEN first("hosted")
          ELSE default

Prescribed ==
  [v \in Versions, section \in NexusSections, list \in ServerRepositoryLists \cup {<<>>}
     |-> PrescribedRoute(v, section, list)]

\* C6: every return of determine_repository is the prescribed route: for a
\* version ending in -SNAPSHOT (any case) the configured snapshot repository,
\* else the first maven2 repository containing "snapshot", else the first
\* containing "snap", else the default; for any other version the configured
\* release repository, else the first maven2 one containing "release", else
\* the first containing "hosted", else the default.  The repositories are the
\* server's when no listing has failed; a failed listing counts as no
\* repositories.  With myrepo-snapshot and myrepo-release and no configured
\* names, 1.2.3-SNAPSHOT goes to myrepo-snapshot and 1.2.3 to myrepo-release.
C6RoutingRule ==
  \A r \in routed :
    /\ r.repository \in {Prescribed[r.version, nexus_section, server_repositories],
                         Prescribed[r.version, nexus_section, <<>>]}
    /\ ~fetch_failed =>
         r.repository = Prescribed[r.version, nexus_section, server_repositories]
    /\ (/\ ~fetch_failed
        /\ server_repositories =
             <<Repo("myrepo-snapshot", "maven2"), Repo("myrepo-release", "maven2")>>
        /\ nexus_section.snapshot_repo = Absent
        /\ nexus_section.release_repo = Absent)
       => /\ r.version = "1.2.3-SNAPSHOT" => r.repository = "myrepo-snapshot"
          /\ r.version = "1.2.3" => r.repository = "myrepo-release"

C6Witness ==
  /\ ~fetch_failed
  /\ [version |-> "2.0-snapshot", repository |-> "maven-snapshots"] \in routed
  /\ [version |-> "1.2.3-SNAPSHOT", repository |-> "maven-snapshots"] \in routed
  /\ [version |-> "1.2.3", repository |-> "Snap-Hosted"] \in routed

\* C7: routing is a function of the version alone: all returns of
\* determine_repository for versions that agree on ending in -SNAPSHOT (in
\* particular for one version) name the same repository.
C7RoutingDeterministic ==
  \A r1, r2 \in routed :
    EndsInSnapshot(r1.version) = EndsInSnapshot(r2.version)
      => r1.repository = r2.repository

(***************************************************************************)
(* Claims about the rate limiter (specification SpecRate)                  *)
(***************************************************************************)
\* C8: for every configured rate R, the first n calls of _rate_limit by the
\* one caller take at least (n-1)/R seconds from the entry of the first to
\* the return of the n-th, and two successive calls return at least 1/R apart.
C8MinimumInterval ==
  \A n \in DOMAIN returned_at :
    /\ (returned_at[n] - started_at) * requests_per_second >= (n - 1) * Second
    /\ n > 1 =>
         (returned_at[n] - returned_at[n - 1]) * requests_per_second >= Second

(***************************************************************************)
(* Claims about the paging loop (specification SpecPage)                   *)
(***************************************************************************)
FullPages(k) == [i \in 1..k |-> "full"]

\* the listing has exactly k full pages and nothing after them
FullThenEmpty(k) == page_source = [head |-> FullPages(k), rest |-> "empty"]

LeftLoop == pg_pc \in {"after_loop", "returned"}

Fetched(n) == \E i \in DOMAIN fetched : fetched[i] = n

\* C9 as stated: for a listing of k full pages followed by empty pages, k
\* within max_pages, get_maven_versions returns k * page_size items and leaves
\* its loop only after it has fetched page k+1.
C9StopsAfterEmptyPage ==
  \A k \in 0..MaxHead :
    (FullThenEmpty(k) /\ pg_pc # "idle" /\ k <= max_pages) =>
      /\ LeftLoop => Fetched(k + 1)
      /\ pg_pc = "returned" => versions = k * page_size

\* C9 amended: the same for k below max_pages; for k equal to max_pages the
\* k * page_size items are returned without page k+1 being asked for.
C9StopsAfterEmptyPageBelowLimit ==
  \A k \in 0..MaxHead :
    (FullThenEmpty(k) /\ pg_pc # "idle" /\ k <= max_pages) =>
      /\ (LeftLoop /\ k < max_pages) => Fetched(k + 1)
      /\ k = max_pages => ~Fetched(k + 1)
      /\ pg_pc = "returned" => versions = k * page_size

C9Witness ==
  /\ FullThenEmpty(2)
  /\ max_pages = 4
  /\ pg_pc = "returned"
  /\ versions = 2 * page_size
  /\ Fetched(3)

\* the listing answers a full page for every page number
AlwaysFull == \A n \in 1..(Len(page_source.head) + 1) : FillOf(page_source, n) = "full"

\* C10: for a listing whose every page is full, get_maven_versions returns
\* after fetching exactly the pages 1..max_pages, with max_pages * page_size
\* items and the truncation warning; max_pages is the configured value, or
\* 1000 without a pagination config.
C10MaxPagesGuard ==
  (AlwaysFull /\ pg_pc # "idle") =>
    /\ max_pages = IF pagination_config.present
                   THEN pagination_config.max_pages ELSE 1000
    /\ Len(fetched) <= max_pages
    /\ \A i \in DOMAIN fetched : fetched[i] = i
    /\ pg_pc = "returned" =>
         /\ Len(fetched) = max_pages
         /\ versions = max_pages * page_size
         /\ warned

C10Witness ==
  /\ AlwaysFull
  /\ ~pagination_config.present
  /\ pg_pc = "returned"
  /\ Len(fetched) = 1000
  /\ versions = 100000
  /\ warned

(***************************************************************************)
(* Claims about the standard migration (specification SpecStd)             *)
(***************************************************************************)
Coordinates(a) == <<a.group_id, a.artifact_id, a.version, a.packaging>>

\* the positions of a list whose coordinates no earlier position has
FirstOccurrences(artifacts) ==
  {i \in DOMAIN artifacts :
     \A j \in 1..(i - 1) : Coordinates(artifacts[j]) # Coordinates(artifacts[i])}

\* the k-th smallest member of a set of numbers
NthOf(S, k) == CHOOSE i \in S : Cardinality({j \in S : j <= i}) = k

\* C11: the list _filter_duplicate_files returns has no two entries of the
\* same (groupId, artifactId, version, packaging) and is the list of the
\* first occurrences of every distinct tuple of its input, in input order;
\* records equal on the tuple and different in file_path yield one entry.
C11DuplicateFilter ==
  LET firsts == FirstOccurrences(all_artifacts)
  IN /\ Len(unique_artifacts) = Cardinality(firsts)
     /\ \A k \in DOMAIN unique_artifacts :
          unique_artifacts[k] = all_artifacts[NthOf(firsts, k)]
     /\ \A i, j \in DOMAIN unique_artifacts :
          i # j => Coordinates(unique_artifacts[i]) # Coordinates(unique_artifacts[j])

C11Witness ==
  /\ std_pc = "downloading"
  /\ all_artifacts = <<StdLibJar, StdLibSources, StdLib2Jar>>
  /\ unique_artifacts = <<StdLibJar, StdLib2Jar>>

\* every transfer asked of the source and of the destination succeeded
AllTransfersAccepted == \A r \in std_requests : r.ok

\* migrate_project is about to return for "demo", whose repository listed
\* exactly lib-1.0.jar, and nothing went wrong on either side
DemoMigratedCleanly ==
  /\ std_pc = "project_return"
  /\ std_projects[project_index] = "demo"
  /\ coding_listing["demo"] = <<StdLibJar>>
  /\ all_artifacts = <<StdLibJar>>
  /\ project_stats.error = Absent
  /\ AllTransfersAccepted

\* C12: with project "demo" holding the one file lib-1.0.jar of
\* com.example:lib 1.0 in its Maven repository and a destination accepting
\* every upload, the standard migration of "demo" returns downloaded = 1,
\* uploaded = 1, download_failures = 0, upload_failures = 0.
C12EndToEndStandard ==
  DemoMigratedCleanly =>
    /\ project_stats.downloaded = 1
    /\ project_stats.uploaded = 1
    /\ project_stats.download_failures = 0
    /\ project_stats.upload_failures = 0

C12Witness ==
  /\ DemoMigratedCleanly
  /\ project_stats.uploaded = 1
  /\ download_directory = {"releases/com/example/lib/1.0/lib-1.0.jar"}
  /\ nexus_assets = {"releases/com/example/lib/1.0/lib-1.0.jar"}

\* C13: a call with dry_run = True downloads nothing from the source and
\* uploads nothing to the destination.
C13DryRunTransfersNothing ==
  std_call.dry_run =>
    /\ std_requests = {}
    /\ download_directory = {}
    /\ nexus_assets = {}

\* positions of the projects whose migration ended in a caught exception
FailedProjects ==
  {i \in DOMAIN total_stats.projects : total_stats.projects[i][2].error # Absent}

\* C14: when migrate_all returns, every project of the list has been
\* migrated and the errors list holds a message for every project whose
\* migration failed with an exception.
C14FailureListedAndRunContinues ==
  (std_call.op = "migrate_all" /\ std_result.outcome = "returned") =>
    /\ Len(total_stats.projects) = Len(std_projects)
    /\ Len(total_stats.errors) >= Cardinality(FailedProjects)

\* the half of C14 that the run goes on after a failed project
C14RunContinues ==
  (std_call.op = "migrate_all" /\ std_result.outcome = "returned") =>
    /\ Len(total_stats.projects) = Len(std_projects)
    /\ \A i \in DOMAIN std_projects : total_stats.projects[i][1] = std_projects[i]

(***************************************************************************)
(* Claims about both migrations (specification SpecTransfers)              *)
(***************************************************************************)
\* the transfers of the current pipeline run that failed
FailedTransfers(op) == {r \in requests : r.run = run /\ r.op = op /\ ~r.ok}

\* the transfers of the project the standard migration is at that failed
StdFailedTransfers(op) ==
  {r \in std_requests :
     r.project = std_projects[project_index] /\ r.op = op /\ ~r.ok}

\* a pipeline run, under way or returned, counts and lists every failed
\* transfer once
PipelineCountsFailuresOnce ==
  mp_pc \notin {"idle", "constructed"} =>
    /\ stats.download_failed = Cardinality(FailedTransfers("download"))
    /\ stats.upload_failed = Cardinality(FailedTransfers("upload"))
    /\ IsInjective(failed_tasks)
    /\ {task[id].artifact : id \in Range(failed_tasks)} =
         {r.artifact : r \in FailedTransfers("download") \cup FailedTransfers("upload")}

\* a pipeline run that returned has asked the source for every artifact it
\* had to migrate, unless the ledger covered the artifact by then, and has
\* tried to upload every payload unless the drain wait ran out
PipelineAttemptsAll ==
  mp_pc = "returned" =>
    /\ \A i \in DOMAIN filtered_artifacts :
         \/ \E r \in requests :
              r.run = run /\ r.op = "download" /\ r.artifact = filtered_artifacts[i]
         \/ check_if_already_uploaded(filtered_artifacts[i], uploaded_hashes)
    /\ queue_wait_count < max_queue_wait =>
         \A id \in DOMAIN task :
           (id[1] = run /\ task[id].download_success) =>
             \E r \in requests :
               r.run = run /\ r.op = "upload" /\ r.artifact = task[id].artifact

\* the standard downloader counts and lists every failed download once
DownloaderCountsFailuresOnce ==
  std_pc \in {"downloading", "uploading"} =>
    /\ download_stats.failed = Cardinality(StdFailedTransfers("download"))
    /\ IsInjective(download_stats.failed_files)
    /\ Range(download_stats.failed_files) =
         {r.path : r \in StdFailedTransfers("download")}

\* ... and once every future is done, every artifact of the list has been
\* downloaded, found on disk or counted as failed
DownloaderAttemptsAll ==
  std_pc = "uploading" =>
    \A i \in DOMAIN unique_artifacts :
      \/ LocalPath[unique_artifacts[i]] \in download_directory
      \/ \E r \in StdFailedTransfers("download") : r.path = unique_artifacts[i].file_path

\* the batch uploader counts and lists every failed upload once
UploaderCountsFailuresOnce ==
  std_pc = "uploading" =>
    /\ upload_stats.failed = Cardinality(StdFailedTransfers("upload"))
    /\ IsInjective(upload_stats.failed_files)
    /\ Range(upload_stats.failed_files) = {r.path : r \in StdFailedTransfers("upload")}

\* ... and at the end of the batch loop every file of the directory is on the
\* destination or counted as failed
UploaderAttemptsAll ==
  (std_pc = "uploading" /\ files_to_upload = {}) =>
    \A f \in download_directory :
      \/ check_file_exists(f, nexus_assets)
      \/ \E r \in StdFailedTransfers("upload") : r.path = f

\* C15: in the standard downloader, the batch uploader and both pipeline
\* migrators a failed download or upload of one artifact adds one to the
\* corresponding failure counter and puts the artifact on the failed list
\* once, and every other artifact of the run is still attempted.
C15FailureIsolation ==
  /\ PipelineCountsFailuresOnce
  /\ PipelineAttemptsAll
  /\ DownloaderCountsFailuresOnce
  /\ DownloaderAttemptsAll
  /\ UploaderCountsFailuresOnce
  /\ UploaderAttemptsAll

\* a pipeline run returned with one upload failed and another, taken by a
\* worker after it, uploaded
C15WitnessPipeline ==
  /\ mp_pc = "returned"
  /\ stats.upload_failed = 1
  /\ stats.uploaded = 1
  /\ Len(failed_tasks) = 1

\* the standard migration with a failed and a successful transfer each way
C15Witness ==
  /\ std_pc = "uploading"
  /\ files_to_upload = {}
  /\ download_stats.failed = 1
  /\ download_stats.downloaded = 2
  /\ upload_stats.failed = 1
  /\ upload_stats.uploaded = 1

(***************************************************************************)
(* Claims about the stop command (specification SpecStop)                  *)
(***************************************************************************)
\* the operator answered y or yes, in any case and with blanks around it
AnsweredYes == answer \in {"y", "yes", "Y", " Yes "}

Signalled(pid) == \E i \in DOMAIN signals : signals[i][1] = pid

\* without --all the selection is the one process, of those found, that
\* started first
SelectsEarliest ==
  (stop_pc \notin {"ready", "unused"} /\ ~stop_options.all /\ migration_processes # <<>>) =>
    /\ Len(processes_to_kill) = 1
    /\ \A q \in Range(migration_processes) :
         processes[processes_to_kill[1]].create_time <= processes[q].create_time

\* no signal without --force or a yes, and only to selected processes
SignalsNeedConsent ==
  signals # <<>> =>
    /\ stop_options.force \/ AnsweredYes
    /\ \A i \in DOMAIN signals : signals[i][1] \in Range(processes_to_kill)

\* a process gets SIGTERM first, once, and SIGKILL only under --force, right
\* after the wait that followed its SIGTERM
TerminateBeforeKill ==
  \A i \in DOMAIN signals :
    IF signals[i][2] = "SIGTERM"
    THEN \A j \in 1..(i - 1) : signals[j][1] # signals[i][1]
    ELSE /\ stop_options.force
         /\ i > 1
         /\ signals[i - 1] = <<signals[i][1], "SIGTERM">>
         /\ <<signals[i][1], "killed", "success">> \in Range(stop_report)

\* a process found gone is a success, and the counts are those of the report
GoneIsSuccess ==
  /\ \A i \in DOMAIN stop_report :
       stop_report[i][2] = "gone" => stop_report[i][3] = "success"
  /\ success_count = Cardinality({i \in DOMAIN stop_report : stop_report[i][3] = "success"})
  /\ failed_count = Cardinality({i \in DOMAIN stop_report : stop_report[i][3] = "failed"})

\* C16, without its first part: no signal without --force or a yes; SIGTERM
\* first and SIGKILL only with --force after the 10-second wait ran out; a
\* process that has exited already counts as a success.
C16SignalProtocol ==
  /\ SignalsNeedConsent
  /\ TerminateBeforeKill
  /\ GoneIsSuccess

\* C16: the stop command selects only the earliest-started matching process
\* without --all, sends no signal without --force or a yes, sends SIGTERM
\* first and SIGKILL only with --force after the 10-second wait ran out, and
\* counts a process that has exited already as a success.
C16StopProtocol ==
  /\ SelectsEarliest
  /\ C16SignalProtocol

(***************************************************************************)
(* Claims about ledger persistence (specifications SpecLedger and Spec)    *)
(***************************************************************************)
\* successful uploads of the run that the ledger file does not hold yet
MissingFromLedger == ledger_uploaded - ledger_saved

\* C17: during a memory-pipeline run with any number of upload workers,
\* fewer than 10 successful uploads of the run are missing from the ledger
\* on disk at any moment.
C17PeriodicSave == MissingFromLedger < SaveEvery

\* C17 for a run with one upload worker
C17PeriodicSaveOneWorker == ledger_workers = 1 => MissingFromLedger < SaveEvery

C18WitnessEarlyReturn ==
  /\ kind = "memory"
  /\ mp_pc = "returned"
  /\ run = 2
  /\ returned[2].total_artifacts > 0
  /\ returned[2].skipped_existing = returned[2].total_artifacts
  /\ record_files[project].exists


(***************************************************************************)
(* C19, C20: the rate-limit retry of _make_request                         *)
(***************************************************************************)
\* every session.post of the current call met RequestLimitExceeded
KeptLimited == \A i \in DOMAIN mr_responses : mr_responses[i] = "limit"

Exhausted == KeptLimited /\ Len(mr_responses) = 1 + max_retries

\* a call sends at most 1 + 3 times, and while every response is a rejection
\* it goes on until the fourth, which makes it raise
C19RetryBound ==
  /\ Len(mr_responses) <= 1 + max_retries
  /\ (KeptLimited /\ mr_responses # <<>> /\ Len(mr_responses) < 1 + max_retries)
       => mr_pc = "sleeping" /\ mr_result = NoOutcome
  /\ Exhausted => mr_pc = "idle" /\ mr_result.kind = "raise"

\* the text of the error raised after the fourth rejection names the upstream
\* code and message
C19TextCarriesCodeAndMessage ==
  Exhausted =>
    mr_result.text = "API Error: API Error: RequestLimitExceeded - Too many requests"
                        \o " (max retries exceeded) (max retries exceeded)"

\* C19: when every response carries RequestLimitExceeded, _make_request
\* sends at most 4 times, never returns normally, and what it raises after
\* the fourth rejection is an APIError
C19BoundedRetry ==
  /\ C19RetryBound
  /\ Exhausted => mr_result.kind = "raise" /\ mr_result.class = "APIError"

\* a retry sequence of the last call is over and no restore_rate thread is
\* left
SequenceOver ==
  /\ mr_pc = "idle"
  /\ mr_result # NoOutcome
  /\ Len(mr_responses) > 1
  /\ restore_times = {}

\* C20: once a retry sequence is over and every restore_rate thread has run,
\* requests_per_second and the capacity of the semaphore are what they were
\* before the first rejection
C20ThrottlingNotPermanent ==
  SequenceOver => requests_per_second = rate_before /\ limiter_capacity = rate_before

\* the same for a sequence that needed one retry only
C20OneRetryRestores ==
  (SequenceOver /\ Len(mr_responses) = 2)
    => requests_per_second = rate_before /\ limiter_capacity = rate_before

(***************************************************************************)
(* C23, C24: the rate and the result of a retry                            *)
(***************************************************************************)
\* a step that re-sends the request and meets a rejection or an exception:
\* the rate of line 148 is the one in force after it
RetryThatFails ==
  /\ mr_pc = "sleeping"
  /\ Len(mr_responses') = Len(mr_responses) + 1
  /\ mr_responses'[Len(mr_responses')] \in {"limit", "exception"}

\* C23: at every retry of a sequence that started at rate R0 the rate is
\* max(5, R0 div 2): halved once for the sequence, not once per retry
C23HalvedOnce ==
  [][RetryThatFails => requests_per_second' = reduced_rate(rate_before)]_vars

\* each retry halves the rate it finds (floor 5)
C23HalvedPerRetry ==
  [][RetryThatFails => requests_per_second' = reduced_rate(requests_per_second)]_vars

\* C24: _make_request returns only an envelope without Error, and a response
\* with a non-rate-limit Error ends the call by a raise with no further send
C24ErrorsAreRaised ==
  /\ mr_result.kind = "return" => ~mr_result.result.has_error
  /\ \A i \in DOMAIN mr_responses :
       mr_responses[i] = "error" => i = Len(mr_responses) /\ mr_result.kind = "raise"

\* the same for the first response of a call only
C24FirstErrorIsRaised ==
  (mr_responses # <<>> /\ mr_responses[1] = "error")
    => /\ Len(mr_responses) = 1
       /\ mr_pc = "idle"
       /\ mr_result = Raised(ApiErrorText(Envelope("error")))

\* a response with a non-rate-limit Error never leads to another send
C24NoSendAfterError ==
  \A i \in DOMAIN mr_responses : mr_responses[i] = "error" => i = Len(mr_responses)

(***************************************************************************)
(* C25, C26: the pages get_maven_versions asks for and what it returns     *)
(***************************************************************************)
PaginationRuns == pg_pc \in {"loop", "look_ahead", "after_loop", "returned"}

\* no request, the look-ahead included, is for a page after max_pages
C25NoRequestBeyondMaxPages ==
  PaginationRuns => \A i \in DOMAIN fetched : fetched[i] <= max_pages

\* C25: get_maven_versions asks for no page number above max_pages and
\* returns items of at most max_pages pages
C25MaxPagesCap ==
  /\ C25NoRequestBeyondMaxPages
  /\ PaginationRuns => Len(all_packages.pages) <= max_pages

\* the requests of the loop itself (line 614) stay within max_pages
C25LoopRequestsWithinMaxPages ==
  [][(pg_pc = "loop" /\ fetched' # fetched) => fetched'[Len(fetched')] <= max_pages]_vars

\* pages 1..k of the listing are non-empty and every later page is empty
NonEmptyThenEmpty ==
  /\ page_source.rest = "empty"
  /\ \A i \in DOMAIN page_source.head : page_source.head[i] # "empty"

LastPage == Len(page_source.head)

\* C26: for a listing whose pages 1..k are non-empty and whose later pages
\* are empty, k <= max_pages, the result is the items of pages 1..k, each
\* page added once and in order, and no page is asked for twice
C26NothingLostOrDuplicated ==
  (pg_pc = "returned" /\ NonEmptyThenEmpty /\ LastPage <= max_pages)
    => /\ all_packages.pages = [i \in 1..LastPage |-> i]
       /\ versions = SumOver(1..LastPage, [i \in 1..LastPage |-> PageItems(page_source, i, page_size)])
       /\ IsInjective(fetched)

\* a short page whose look-ahead page was merged, then the end of the listing
C26Witness ==
  /\ pg_pc = "returned"
  /\ NonEmptyThenEmpty
  /\ LastPage = 3
  /\ LastPage <= max_pages
  /\ page_source.head = <<"short", "full", "short">>
  /\ all_packages.pages = <<1, 2, 3>>
  /\ fetched = <<1, 2, 3, 4>>

(***************************************************************************)
(* C27, C28, C29: the disk pipeline's temp files, drain and termination    *)
(***************************************************************************)
\* tasks of the current run whose download has put a file in the temp dir
\* and that no upload worker has taken yet
AwaitingUpload ==
  {TaskId(i) : i \in {j \in DOMAIN dl_pc : dl_pc[j] = "put"}} \cup Range(upload_queue)

TempPathsDistinct ==
  \A a, b \in DOMAIN task :
    (a # b /\ a[1] = b[1] /\ task[a].temp_file_path # "")
      => task[a].temp_file_path # task[b].temp_file_path

TempFilesKept == \A id \in AwaitingUpload : task[id].temp_file_path \in temp_files

\* C27: no two download tasks of a run share a temp file path, so the file of
\* a task that is downloaded and not yet taken by a consumer is still there
C27TempFilesApart == kind = "disk" => TempPathsDistinct /\ TempFilesKept

FileNamesDistinct ==
  \A i, j \in DOMAIN source[project] :
    i # j => source[project][i].file_name # source[project][j].file_name

\* the same for a listing whose file names differ
C27DistinctNamesApart ==
  (kind = "disk" /\ FileNamesDistinct) => TempPathsDistinct /\ TempFilesKept

Enqueued == {id \in DOMAIN task : id[1] = run /\ task[id].download_success}

TimesFailed(id) == Cardinality({i \in DOMAIN failed_tasks : failed_tasks[i] = id})

\* C28: with an upload worker, when the disk pipeline's migrate_project
\* returns the queue is empty, the workers have left their loop, and every
\* task that was enqueued is counted once, as uploaded or as upload_failed
C28DiskDrain ==
  (kind = "disk" /\ mp_pc = "returned" /\ UploadWorkers(max_workers) >= 1)
    => /\ upload_queue = <<>>
       /\ \A w \in DOMAIN worker : worker[w].pc = "stopped"
       /\ \A id \in Enqueued :
            TimesFailed(id) = (IF task[id].upload_success THEN 0 ELSE 1)
       /\ stats.uploaded = Cardinality({id \in Enqueued : task[id].upload_success})
       /\ stats.uploaded + stats.upload_failed = Cardinality(Enqueued)

\* two tasks were enqueued; one upload succeeded and one failed
C28Witness ==
  /\ kind = "disk"
  /\ mp_pc = "returned"
  /\ UploadWorkers(max_workers) >= 1
  /\ Cardinality(Enqueued) = 2
  /\ stats.uploaded = 1
  /\ stats.upload_failed = 1

\* C29: the disk pipeline's migrate_project returns, for every max_workers
\* and listing, when every download and upload call returns
C29DiskTerminates == <>(mp_pc = "returned")

\* the same for the configurations that have an upload worker
C29TerminatesWithUploadWorker ==
  UploadWorkers(max_workers) >= 1 => <>(mp_pc = "returned")

\* the driver polls a queue that nobody empties
DriverWaitsForever ==
  /\ mp_pc = "drain"
  /\ upload_queue # <<>>
  /\ worker = NoWorkers

(***************************************************************************)
(* C30: one MemoryPipelineMigrator for several projects                    *)
(***************************************************************************)
\* the download futures of the current run are done: each artifact handed to
\* them was asked of the source, unless the ledger covered it by then
RunDownloadedItsArtifacts ==
  \A i \in DOMAIN filtered_artifacts :
    \/ Asked(run, "download", filtered_artifacts[i])
    \/ check_if_already_uploaded(filtered_artifacts[i], uploaded_hashes)

\* the upload workers of the current run have gone through their loop: each
\* payload that was queued met an upload attempt
RunUploadedItsPayloads ==
  \A id \in DOMAIN task :
    (id[1] = run /\ task[id].download_success) => Asked(run, "upload", task[id].artifact)

PoolIsDone ==
  /\ kind = "memory"
  /\ mp_pc = "join"
  /\ \A w \in DOMAIN worker : worker[w].pc = "stopped"
  /\ queue_wait_count < max_queue_wait

\* C30: a later project run on the same migrator downloads and uploads its
\* artifacts that are not in the ledger, as the first project's run does
C30LaterProjectsMigrated ==
  (PoolIsDone /\ run >= 2) => RunDownloadedItsArtifacts /\ RunUploadedItsPayloads

\* the first run of a migrator does
C30FirstProjectMigrated ==
  (PoolIsDone /\ run = 1) => RunDownloadedItsArtifacts /\ RunUploadedItsPayloads

\* ... and so does a later run as long as no earlier run has set the flag
C30MigratedWhileFlagClear ==
  [][(mp_pc = "drain" /\ mp_pc' = "join" /\ ~stop_event)
       => RunDownloadedItsArtifacts]_vars

\* the second project's run found the flag of the first one set: no download
\* was asked for
SecondProjectSuppressed ==
  /\ PoolIsDone
  /\ run = 2
  /\ project = "tools"
  /\ filtered_artifacts = <<ArtTool10>>
  /\ ~Asked(2, "download", ArtTool10)


(***************************************************************************)
(* C21: the Content-Type of an upload                                      *)
(***************************************************************************)
\* what the table assigns to the extension of a destination path's filename
TableTypeOf == [p \in Range(PutPathOf) |-> get_content_type(suffix(p))]

SentRight(put) == put.content_type = TableTypeOf[put.path]

\* C21: every PUT carries the Content-Type the table of _get_content_type
\* assigns to the extension of the destination filename (a.jar and a.war
\* application/java-archive, a.pom text/xml, a.xyz application/octet-stream),
\* whether the directory batch upload, the disk pipeline or the memory
\* pipeline sends it
C21ContentTypeByDestination ==
  \A i \in DOMAIN put_log : SentRight(put_log[i])

\* the directory batch upload and the disk pipeline hand upload_file a local
\* file that has the destination's filename, and send what the table assigns
C21DirectoryAndDiskUploads ==
  \A i \in DOMAIN put_log :
    put_log[i].via \in {"directory", "disk"} => SentRight(put_log[i])

\* the memory pipeline hands upload_file a file named upload_<hash>.tmp: all
\* its uploads go out as application/octet-stream
C21MemoryUploadsOctetStream ==
  \A i \in DOMAIN put_log :
    put_log[i].via = "memory" => put_log[i].content_type = "application/octet-stream"

\* a jar uploaded by the memory pipeline, sent as application/octet-stream
MemoryJarAsOctetStream ==
  \E i \in DOMAIN put_log :
    /\ put_log[i].via = "memory"
    /\ put_log[i].path = "g/a/1/a.jar"
    /\ put_log[i].content_type = "application/octet-stream"


(***************************************************************************)
(* C22: the pipeline entry points fail fast                                *)
(***************************************************************************)
\* a call of an entry point has ended
EntryDone == en_pc = "idle" /\ en_count > 0

SourceReachable == coding_service.reachable

DestinationReachable == nexus_service = "ok"

\* the built-in ConnectionError and the package's class of that name
ConnectionClasses ==
  {"builtins.ConnectionError", "coding_migrator.exceptions.ConnectionError"}

RaisedConnectionError ==
  en_result.outcome = "raised" /\ en_result.class \in ConnectionClasses

\* the call reached a pipeline migrator's migrate_project
Delegated ==
  \E i \in DOMAIN en_log : en_log[i].op \in {"PipelineMigrator", "MemoryPipelineMigrator"}

\* the call went on to _get_project_by_name after the two tests
WentOnToResolve ==
  /\ Len(en_log) >= 3
  /\ en_log[3] = Asks("get_all_projects", 0)

\* with the source or the destination unreachable the call raises a
\* Connection-class error and no pipeline migrator is called
C22UnreachableRaises ==
  (EntryDone /\ ~(SourceReachable /\ DestinationReachable))
    => (RaisedConnectionError /\ ~Delegated)

\* with both reachable the call goes on to resolve the project, and hands a
\* project the source lists to the migrator of the entry point
C22ReachableProceeds ==
  (EntryDone /\ SourceReachable /\ DestinationReachable)
    => /\ WentOnToResolve
       /\ ~RaisedConnectionError
       /\ (\E i \in DOMAIN coding_service.projects :
             coding_service.projects[i].name = en_call.project_name) => Delegated

\* C22: migrate_project_pipeline and migrate_project_memory_pipeline raise a
\* Connection-class error before anything is listed, downloaded or uploaded
\* whenever the source or the destination is unreachable, and go on to
\* resolve the project and delegate to the pipeline whenever both are
\* reachable
C22PipelineFailFast == C22UnreachableRaises /\ C22ReachableProceeds

\* what holds of the second half: with both reachable and at least one
\* project listed the call resolves the name; a listed project goes to the
\* migrator of the entry point with its id, an unlisted one raises ValueError
C22ListedSourceProceeds ==
  (EntryDone /\ SourceReachable /\ DestinationReachable
     /\ coding_service.projects # <<>>)
    => LET id == ProjectByName(coding_service.projects, 1, en_call.project_name)
       IN /\ WentOnToResolve
          /\ IF id = 0
             THEN en_result = ProjectNotFound /\ ~Delegated
             ELSE /\ en_log[Len(en_log)] = Asks(MigratorOf(en_call.entry), id)
                  /\ en_result.outcome = "returned"

\* a reachable source that lists no project, a reachable destination, and
\* the call refused as a connection failure
EmptyTeamRefused ==
  /\ EntryDone
  /\ SourceReachable /\ DestinationReachable
  /\ coding_service.projects = <<>>
  /\ en_result = ConnectionFailure
  /\ en_log = <<Asks("get_all_projects", 0)>>


(***************************************************************************)
(* C31: the ledgers of the projects of one command                         *)
(***************************************************************************)
\* the project that run r of the command migrates: demo, then tools
ProjectOfRun(r) == IF r = 1 THEN "demo" ELSE "tools"

\* coordinate hashes of the artifacts uploaded for project p so far (the
\* ledger files of the command's start hold no hash)
OwnHashes(p) ==
  {CoordinateHash(q.artifact) :
     q \in {x \in requests : x.op = "upload" /\ x.ok /\ ProjectOfRun(x.run) = p}}

LedgerHoldsOwnHashes(p) ==
  record_files[p].exists => record_files[p].uploaded_hashes \subseteq OwnHashes(p)

\* skipped_existing counted by the current run alone
SkippedInRun ==
  stats.skipped_existing - (IF run <= 1 THEN 0 ELSE returned[run - 1].skipped_existing)

\* artifacts of the current project that an upload for this project covers
CoveredByOwn ==
  {i \in DOMAIN source[project] : CoordinateHash(source[project][i]) \in OwnHashes(project)}

\* C31: the ledger written for a project holds only the hashes its own file
\* held at load and those of artifacts uploaded for that project; hashes
\* uploaded for a project migrated earlier by the same migrator are neither
\* in another project's ledger nor make its artifacts count as
\* skipped_existing
C31LedgerIsolation ==
  /\ \A p \in ReuseProjects : LedgerHoldsOwnHashes(p)
  /\ run >= 1 => SkippedInRun <= Cardinality(CoveredByOwn)

\* the first project of the command has its own hashes only
C31FirstLedgerOwn == LedgerHoldsOwnHashes("demo")

\* a project whose ledger file exists when its run loads it is kept apart:
\* the load replaces the hashes of the earlier project
C31IsolatedWhenFileExists ==
  [][(mp_pc = "constructed" /\ run' = run + 1 /\ record_files[ProjectOfTurn].exists)
       => /\ uploaded_hashes' = record_files[ProjectOfTurn].uploaded_hashes
          /\ stats'.skipped_existing - stats.skipped_existing
               = Cardinality({i \in DOMAIN source[ProjectOfTurn] :
                    CoordinateHash(source[ProjectOfTurn][i])
                      \in record_files[ProjectOfTurn].uploaded_hashes})]_vars

\* tools has no ledger file; its run skips lib-1.0.jar, which was uploaded
\* for demo only, and writes demo's hashes into the ledger of tools
ForeignHashesInLedger ==
  /\ run = 2 /\ mp_pc = "returned"
  /\ source["tools"] = <<ArtLib10>>
  /\ ~Asked(2, "upload", ArtLib10)
  /\ SkippedInRun = 1
  /\ CoordinateHash(ArtLib10) \in record_files["tools"].uploaded_hashes
  /\ CoordinateHash(ArtLib20) \in record_files["tools"].uploaded_hashes


(***************************************************************************)
(* C32: the memory counter at the return of migrate_project                *)
(***************************************************************************)
MemoryRunReturned == kind = "memory" /\ mp_pc = "returned"

\* tasks of the current run that are still in the queue, or whose put timed out
LeftBehind ==
  {id \in DOMAIN task :
     /\ id[1] = run
     /\ \/ \E k \in DOMAIN upload_queue : upload_queue[k] = id
        \/ task[id].error_message = "Queue error"}

\* C32: when migrate_project of the memory pipeline returns,
\* current_memory_usage is 0: every payload size added has been subtracted
\* again, also for a payload whose put timed out and for payloads still in
\* the queue when the drain wait of 600 polls ran out
C32MemoryZeroAtReturn == MemoryRunReturned => current_memory_usage = 0

\* what the counter holds at the return: the payloads no worker has taken
C32LeftBehindStaysCounted ==
  MemoryRunReturned =>
    current_memory_usage =
      SumOver(LeftBehind, [id \in DOMAIN task |-> task[id].file_data])

\* with the queue empty at the return the counter is 0
C32ZeroWhenQueueEmptied ==
  (MemoryRunReturned /\ LeftBehind = {}) => current_memory_usage = 0

\* the drain wait ran out with a payload in the queue, the workers stopped,
\* and the run returned with the payload's size on the counter
DrainTimedOutWithPayload ==
  /\ MemoryRunReturned
  /\ max_workers >= 2
  /\ queue_wait_count = max_queue_wait
  /\ upload_queue # <<>>
  /\ current_memory_usage > 0


(***************************************************************************)
(* C33: a producer waiting for memory                                      *)
(***************************************************************************)
Waiting(i) == kind = "memory" /\ i \in DOMAIN dl_pc /\ dl_pc[i] = "waiting"

\* an upload worker at the release of its finally block, with a payload
ReleaseReady(w) ==
  /\ worker[w].pc = "release"
  /\ ReleasesMemory(task[worker[w].task])

\* a producer about to take memory_lock: for its test of the limit or to add
\* the size of its payload
AtLock(j) == dl_pc[j] \in {"check_memory", "add"}

\* C33: a download task that waits for memory to fall does not block the
\* release: while it waits an upload worker finishing a task can subtract
\* from current_memory_usage, so the wait ends as usage falls to half the
\* cap, and other producers are not held up behind it
C33WaitingBlocksNobody ==
  \A i \in DOMAIN dl_pc :
    Waiting(i) =>
      /\ \A w \in DOMAIN worker : ReleaseReady(w) => memory_lock = <<>>
      /\ \A j \in DOMAIN dl_pc : (j # i /\ AtLock(j)) => memory_lock = <<>>

\* what the code does: the counter does not move while a producer waits ...
C33UsageFrozenWhileWaiting ==
  [][(\E i \in DOMAIN dl_pc : Waiting(i))
       => current_memory_usage' = current_memory_usage]_vars

\* ... and every wait runs the whole 300 polls
C33WaitRunsToTimeout ==
  [][\A i \in DOMAIN dl_pc :
       (Waiting(i) /\ i \in DOMAIN dl_pc' /\ dl_pc'[i] = "download")
         => wait_count'[i] = max_wait_time]_vars

\* a producer waits with the lock, a worker has finished its upload and
\* cannot give the payload back
ReleaseHeldUp ==
  \E i \in DOMAIN dl_pc, w \in DOMAIN worker :
    /\ Waiting(i)
    /\ ReleaseReady(w)
    /\ memory_lock = <<"download", i>>


(***************************************************************************)
(* C35: permits of the rate-limit semaphore                                *)
(***************************************************************************)
\* C35: at every moment the permits available on the current rate-limit
\* semaphore are at most the current requests_per_second, also after the
\* semaphore was rebuilt at a reduced or restored capacity while delayed
\* 50 ms releases of earlier requests are pending
C35PermitsWithinRate == rate_limiter <= requests_per_second

\* the semaphore is always built with the rate it is rebuilt for
C35BuiltForTheRate == limiter_capacity = requests_per_second

\* the permits above the rate are releases of permits taken from a semaphore
\* that was replaced since: never more than the calls of _rate_limit
C35ExcessIsLateReleases ==
  rate_limiter + BagCardinality(release_times) <= requests_per_second + request_count

\* a release thread that outlived its semaphore has put its permit on the new one
PermitAboveRate ==
  /\ rate_limiter = requests_per_second + 1
  /\ release_times = EmptyBag
  /\ restore_times = {}
  /\ mr_pc = "idle"


(***************************************************************************)
(* C34: every caller of _rate_limit proceeds                               *)
(***************************************************************************)
BlockedInAcquire(t) == sem_caller[t].pc = "blocked"

HasPermit(t) == sem_caller[t].pc \in {"acquired", "returned"}

\* C34: every caller of _rate_limit obtains a permit in the end and goes on,
\* for any number of concurrent callers, also a caller that is blocked on the
\* semaphore when throttling or the restore of the rate assigns a new one
C34EveryCallerProceeds ==
  \A t \in SemThreads : BlockedInAcquire(t) ~> HasPermit(t)

\* a caller proceeds as long as the semaphore it waits on stays the one of
\* self.rate_limiter
C34ProceedsOnCurrentSemaphore ==
  \A t \in SemThreads :
    (BlockedInAcquire(t) /\ sem_caller[t].sem = CurrentSemaphore)
      ~> (HasPermit(t) \/ sem_caller[t].sem < CurrentSemaphore)

\* no permit is ever given to a semaphore that has been replaced
C34ReplacedSemaphoreGetsNoPermit ==
  [][\A k \in DOMAIN semaphores :
       k < CurrentSemaphore => semaphores'[k] <= semaphores[k]]_vars

\* a caller waits on a semaphore that was replaced and has no permit: every
\* other thread is done, no release is due, no rebuild is left
BlockedOnReplacedSemaphore ==
  \E t \in SemThreads :
    /\ BlockedInAcquire(t)
    /\ sem_caller[t].sem < CurrentSemaphore
    /\ semaphores[sem_caller[t].sem] = 0
    /\ semaphores[CurrentSemaphore] > sem_rate
    /\ late_releases = 0
    /\ \A u \in SemThreads \ {t} : sem_caller[u].pc = "returned"


(***************************************************************************)
(* C36: files that share their coordinates                                 *)
(***************************************************************************)
\* the first run of a memory migrator that found no ledger file has listed
\* the project's artifacts and returned
FirstMemoryRunReturned ==
  /\ kind = "memory" /\ run = 1 /\ mp_pc = "returned"
  /\ Rediscovered(1, source[project])

\* the file was uploaded, or its download or its upload was counted as failed
AccountedFor(a) ==
  \/ UploadedIn(1, a)
  \/ [run |-> 1, op |-> "download", artifact |-> a, ok |-> FALSE] \in requests
  \/ [run |-> 1, op |-> "upload", artifact |-> a, ok |-> FALSE] \in requests

\* C36: in a memory-pipeline run every discovered file that the ledger did
\* not cover at the start is, at the return, uploaded or counted as
\* download_failed or upload_failed; none is counted skipped_existing because
\* another file of the same groupId, artifactId, version and packaging (the
\* main jar and the -sources.jar of a version) was uploaded in the same run
C36EveryFileAccountedFor ==
  FirstMemoryRunReturned =>
    /\ \A i \in DOMAIN source[project] : AccountedFor(source[project][i])
    /\ stats.skipped_existing = 0

\* it holds for listings whose files differ in their coordinates, when no
\* task was left in the queue
C36DistinctCoordinatesAccountedFor ==
  (/\ FirstMemoryRunReturned
   /\ LeftBehind = {}
   /\ \A i, j \in DOMAIN source[project] :
        i # j => CoordinateHash(source[project][i]) # CoordinateHash(source[project][j]))
    => /\ \A i \in DOMAIN source[project] : AccountedFor(source[project][i])
       /\ stats.skipped_existing = 0

\* lib-1.0.jar was uploaded before the task of lib-1.0-sources.jar started:
\* the sources were never downloaded and count as skipped_existing
SourcesJarSkipped ==
  /\ FirstMemoryRunReturned
  /\ source[project] = <<ArtLib10, ArtLib10Sources>>
  /\ UploadedIn(1, ArtLib10)
  /\ ~Asked(1, "download", ArtLib10Sources)
  /\ stats.skipped_existing = 1
  /\ stats.download_failed = 0 /\ stats.upload_failed = 0


(***************************************************************************)
(* C37: the destination path of the standard flow                          *)
(***************************************************************************)
\* the last part of artifact.file_path, the name the source gives the file
FileNameOf(artifact) ==
  LET parts == Split(artifact.file_path, "/") IN parts[Len(parts)]

\* g with dots as slashes, then a, v and the file name
ExpectedDestination ==
  [a \in StdArtifacts |->
     Replace(a.group_id, ".", "/") \o "/" \o a.artifact_id \o "/" \o a.version
       \o "/" \o FileNameOf(a)]

\* upload_file line 223: the groupId taken from the parts of maven_path
UploadGroupId ==
  [f \in LocalPaths |->
     LET parts == Split(f, "/") IN Join(SubSeq(parts, 1, Len(parts) - 3), ".")]

\* the artifacts of the current project whose downloaded file was uploaded
StdUploaded ==
  {a \in StdArtifacts :
     /\ \E i \in DOMAIN unique_artifacts : unique_artifacts[i] = a
     /\ LocalPath[a] \in Range(upload_stats.uploaded_files)}

\* C37: in the standard two-phase flow an artifact (g, a, v) downloaded from
\* source repository r is uploaded to g with dots as slashes / a / v / file
\* name; r is neither a segment of the destination path nor part of the
\* groupId derived for the upload.
C37DestinationWithoutRepository ==
  \A a \in StdUploaded :
    /\ PutPath[LocalPath[a]] = ExpectedDestination[a]
    /\ UploadGroupId[LocalPath[a]] = a.group_id

\* what the code does: the name of the source repository leads both
C37RepositoryLeadsDestination ==
  \A a \in StdUploaded :
    /\ PutPath[LocalPath[a]] = RepositoryName \o "/" \o ExpectedDestination[a]
    /\ PutPath[LocalPath[a]] \in nexus_assets
    /\ UploadGroupId[LocalPath[a]] = RepositoryName \o "." \o a.group_id

\* lib-1.0.jar of com.example:lib went to releases/com/example/lib/1.0/
RepositoryInDestination ==
  /\ StdLibJar \in StdUploaded
  /\ "releases/com/example/lib/1.0/lib-1.0.jar" \in nexus_assets
  /\ "com/example/lib/1.0/lib-1.0.jar" \notin nexus_assets
  /\ UploadGroupId[LocalPath[StdLibJar]] = "releases.com.example"


(***************************************************************************)
(* C38: the download counters of the disk pipeline                         *)
(***************************************************************************)
LongRunReturned == long_pc = "returned"

\* C38: in the disk pipeline, when migrate_project returns each artifact has
\* been counted in exactly one of downloaded and download_failed, so
\* downloaded + download_failed = total_artifacts, including when the put
\* onto the full upload queue times out after a successful download.
C38DownloadCountsAddUp ==
  LongRunReturned =>
    long_stats.downloaded + long_stats.download_failed = long_stats.total_artifacts

\* a put that timed out is in both counters: the sum is over the total by
\* the number of failed tasks that are failed puts
C38PutTimeoutCountedTwice ==
  LongRunReturned =>
    /\ long_stats.downloaded + long_stats.download_failed >= long_stats.total_artifacts
    /\ long_stats.downloaded + long_stats.download_failed
         <= long_stats.total_artifacts + long_failed_tasks - long_stats.upload_failed
    /\ long_stats.downloaded = IF long_source_serves THEN long_stats.total_artifacts ELSE 0

\* with fewer artifacts than the queue holds no put times out and the
\* counters add up
C38AddUpWithinQueue ==
  (LongRunReturned /\ long_listing <= DiskQueueMaxSize) =>
    long_stats.downloaded + long_stats.download_failed = long_stats.total_artifacts

\* every download succeeded, one put timed out, the run returned
PutTimedOutAfterDownload ==
  /\ LongRunReturned
  /\ long_stats.total_artifacts = DiskQueueMaxSize + OverQueue
  /\ long_stats.downloaded = long_stats.total_artifacts
  /\ long_stats.download_failed = 1
  /\ long_stats.uploaded = long_stats.total_artifacts - 1


(***************************************************************************)
(* C39: the counters of upload_directory                                   *)
(***************************************************************************)
\* upload_directory has gone through the files of the tree
UploadDirectoryDone == std_pc = "uploading" /\ files_to_upload = {}

\* one iteration of the loop for a file whose search was not answered
SearchFailedFor(maven_path) ==
  \E outcome \in TransferOutcomes : Std_upload_batch(maven_path, outcome, "fails")

\* one iteration of the loop that counts a file skipped
SkipStep == upload_stats'.skipped = upload_stats.skipped + 1

\* while the loop runs: the counted files and the files to come are the tree
C39CountedOnce ==
  std_pc = "uploading" =>
    /\ upload_stats.uploaded + upload_stats.failed + upload_stats.skipped
         + Cardinality(files_to_upload) = upload_stats.total_files
    /\ Len(upload_stats.uploaded_files) = upload_stats.uploaded
    /\ Len(upload_stats.failed_files) = upload_stats.failed

\* a step that counts a file skipped has the file in the destination, and
\* asks no upload
C39SkippedOnlyWhenPresent ==
  [][SkipStep =>
       \E f \in files_to_upload :
         /\ files_to_upload' = files_to_upload \ {f}
         /\ file_reported_present(f, nexus_assets, "answers")
         /\ Std_upload_batch(f, "success", "answers")
         /\ std_requests' = std_requests
         /\ upload_stats'.uploaded = upload_stats.uploaded
         /\ upload_stats'.failed = upload_stats.failed]_vars

\* a file whose search fails is not skipped: its upload is asked and it is
\* counted uploaded or failed
C39QueryFailureCountsAsAbsent ==
  [][\A f \in files_to_upload :
       SearchFailedFor(f) =>
         /\ upload_stats'.skipped = upload_stats.skipped
         /\ upload_stats'.uploaded + upload_stats'.failed
              = upload_stats.uploaded + upload_stats.failed + 1
         /\ \E r \in std_requests' \ std_requests :
              r.op = "upload" /\ r.path = f]_vars

\* at the end of the loop the three counters make up the files of the tree
C39AllCounted ==
  UploadDirectoryDone =>
    upload_stats.uploaded + upload_stats.failed + upload_stats.skipped
      = upload_stats.total_files

\* C39: for upload_directory over any directory tree, every file is counted
\* in exactly one of uploaded, failed and skipped (uploaded + failed +
\* skipped = total_files); a file is skipped only when the existence check
\* reported it present, and an existence-check query failure counts as
\* absent, so an upload of that file is attempted.
C39BatchAccounting ==
  /\ []C39AllCounted
  /\ C39SkippedOnlyWhenPresent
  /\ C39QueryFailureCountsAsAbsent

\* the tree held three files: one was found in the destination and skipped,
\* one was refused, and one that an earlier project had uploaded was
\* uploaded again, its search having failed
C39Witness ==
  /\ UploadDirectoryDone
  /\ upload_stats.total_files = 3
  /\ upload_stats.skipped = 1
  /\ upload_stats.uploaded = 1
  /\ upload_stats.failed = 1
  /\ \E f \in Range(upload_stats.uploaded_files) :
       \E r \in std_requests :
         r.op = "upload" /\ r.path = f /\ r.ok /\ r.project # std_projects[project_index]


(***************************************************************************)
(* C40: the retry decorator                                                *)
(***************************************************************************)
RECURSIVE Power(_, _)
Power(b, n) == IF n = 0 THEN 1 ELSE b * Power(b, n - 1)

Matching(outcome) == outcome.kind = "raise" /\ outcome.value \in wrap_exceptions

WrapDone == wrap_pc \in {"returned", "raised"}

LastCall == func_calls[Len(func_calls)]

\* the wrapped operation is called at most max_attempts times, and every
\* call but the last was a matching failure
BoundedCalls ==
  /\ Len(func_calls) <= wrap_max_attempts
  /\ \A i \in 1..(Len(func_calls) - 1) : Matching(func_calls[i])

\* the value of the first successful call is returned with no further call
FirstSuccessReturned ==
  \A i \in DOMAIN func_calls :
    func_calls[i].kind = "return" =>
      /\ i = Len(func_calls)
      /\ wrap_pc = "returned"
      /\ wrap_result = func_calls[i]

\* after the matching failure of attempt i < max_attempts the wrapper has
\* slept delay * backoff^(i-1), and it has slept at no other time
BackoffSleeps ==
  /\ \A i \in DOMAIN func_calls :
       (Matching(func_calls[i]) /\ i < wrap_max_attempts) =>
         /\ i \in DOMAIN sleeps
         /\ sleeps[i] = wrap_delay * Power(wrap_backoff, i - 1)
  /\ \A i \in DOMAIN sleeps :
       i \in DOMAIN func_calls /\ Matching(func_calls[i]) /\ i < wrap_max_attempts

\* after max_attempts matching failures the last failure is re-raised
LastFailureRaised ==
  (Len(func_calls) = wrap_max_attempts /\ wrap_max_attempts > 0 /\ Matching(LastCall)) =>
    /\ wrap_pc = "raised"
    /\ wrap_result = LastCall

\* an exception that does not match propagates at once
NonMatchingPropagates ==
  \A i \in DOMAIN func_calls :
    (func_calls[i].kind = "raise" /\ ~Matching(func_calls[i])) =>
      /\ i = Len(func_calls)
      /\ wrap_pc = "raised"
      /\ wrap_result = func_calls[i]
      /\ Len(sleeps) = i - 1

\* C40: retry with backoff: the wrapped operation is called at most
\* max_attempts times; the value of the first successful call is returned
\* with no further call; after a matching failure on attempt i < max_attempts
\* the wrapper sleeps delay * backoff^(i-1) before the next call; after
\* max_attempts matching failures the last failure is re-raised; a
\* non-matching exception propagates at once without retry.
C40RetryWithBackoff ==
  /\ BoundedCalls
  /\ FirstSuccessReturned
  /\ BackoffSleeps
  /\ LastFailureRaised
  /\ NonMatchingPropagates

\* a wrapper that is done takes no further step
C40NoCallAfterTheEnd == [][~WrapDone]_wrapVars

\* max_attempts = 3, delay 2, backoff 3: two matching failures, slept 2 and
\* 6, the third call returned "a"
C40Witness ==
  /\ wrap_max_attempts = 3 /\ wrap_delay = 2 /\ wrap_backoff = 3
  /\ Len(func_calls) = 3
  /\ Matching(func_calls[1]) /\ Matching(func_calls[2])
  /\ sleeps = <<2, 6>>
  /\ wrap_pc = "returned"
  /\ wrap_result = [kind |-> "return", value |-> "a"]

\* three matching failures: slept twice, the third failure raised
C40WitnessExhausted ==
  /\ wrap_max_attempts = 3
  /\ Len(func_calls) = 3
  /\ Len(sleeps) = 2
  /\ wrap_pc = "raised"
  /\ wrap_result = [kind |-> "raise", value |-> "Timeout"]
  /\ "Timeout" \in wrap_exceptions

\* a ValueError at the second call left the wrapper at once
C40WitnessNonMatching ==
  /\ Len(func_calls) = 2
  /\ Len(sleeps) = 1
  /\ wrap_pc = "raised"
  /\ wrap_result = [kind |-> "raise", value |-> "ValueError"]

====
